---- MODULE Spec2Model ----
(***************************************************************************)
(* Model of the research-scraper pipeline: the dedup gate (main.py,        *)
(* storage.py), the deductive classifier (filters.py) and the Parquet      *)
(* store (storage.py).  Text is modelled at character level with TLA+      *)
(* strings (Len, \o and SubSeq); time is a clock counted in days.          *)
(***************************************************************************)
EXTENDS Integers, Sequences, FiniteSets, TLC

VARIABLES
    clock,            \* wall clock, in days (datetime.now())
    seen_file,        \* data/seen_hashes.json : hash -> entry
    parquet_file,     \* data/rfps.parquet : [exists, readable, rows]
    fetched,          \* number of notices the adapters have returned
    pc,               \* position of each run of main()
    all_rfps,         \* main: batch returned by the adapters
    seen,             \* main: in-memory seen dict
    new_rfps,         \* main: rows accepted so far
    now,              \* main: timestamp taken at line 48
    idx,              \* main: position of the for loop over all_rfps
    written,          \* main: value returned by append_rfps
    seen0,            \* history: seen dict as loaded by this run
    store0,           \* history: parquet_file when this run was started
    rejected,         \* history: hashes this run has rejected
    held,             \* history: every entry this run loaded or created
    last_batch,       \* history: batch of the latest completed run
    last_held,        \* history: entries held by the latest completed run
    last_complete,    \* history: TRUE when the latest run ran to completion
    origin,           \* history: hash -> (state, id, title) that registered it
    cl_rfp,           \* classifier harness: input record
    cl_out,           \* classifier harness: result of classify_rfp
    cl_pc,            \* classifier harness: position
    kt_rfps,          \* loop-body harness: batch of adapter records
    kt_idx,           \* loop-body harness: position of the for loop
    kt_out,           \* loop-body harness: (match, keywords, key_terms) per record
    kt_pc,            \* loop-body harness: position
    sc_outcome,       \* scrape loop: what each adapter does when it is called
    sc_idx,           \* scrape loop: position of the for loop over ALL_SOURCES
    sc_invoked,       \* history: adapters called by this run, in order
    sc_failed,        \* history: adapters whose failure this run has logged
    docs,             \* docs/data/summary.json and docs/index.html : summary
    outbox,           \* mails handed to the SMTP server
    form_rows,        \* published CSV of the form: the rows under the header
    overrides_file,   \* data/keyword_overrides.json : [status, content]
    kw_returned,      \* value the latest sync_form_responses returned
    kw_patterns,      \* value the latest get_effective_patterns returned
    top_terms_file,   \* data/top_terms.json : [status, content]
    an_pc,            \* analyzer: position of the run
    an_in,            \* analyzer: current_top, current_gaps, current_rake
    an_clock,         \* analyzer: clock reading of the latest run
    an_previous,      \* analyzer: previous, as loaded at line 411
    an_report,        \* analyzer: sections detect_new_terms put in the report
    an_writes,        \* history: writes of the snapshot file by this run
    an_file0,         \* history: snapshot file as this run found it
    an_latest,        \* history: snapshot saved by the latest run that saved
    an_lines,         \* analyzer: sections the analyses put in report_lines
    report_file,      \* data/keyword_analysis.txt : sections of the report
    an_summary        \* analyzer: summary returned by run_analysis

pipeVars == <<clock, seen_file, parquet_file, fetched, pc,
              all_rfps, seen, new_rfps, now, idx, written, seen0, store0,
              rejected, held, last_batch, last_held, last_complete,
              origin>>
clVars == <<cl_rfp, cl_out, cl_pc>>
ktVars == <<kt_rfps, kt_idx, kt_out, kt_pc>>
scVars == <<sc_outcome, sc_idx, sc_invoked, sc_failed>>
readerVars == <<docs, outbox>>
kwVars == <<form_rows, overrides_file, kw_returned, kw_patterns>>
harnessVars == <<clVars, ktVars, scVars, readerVars, kwVars>>
anVars == <<top_terms_file, an_pc, an_in, an_clock, an_previous, an_report,
            an_writes, an_file0, an_latest, an_lines, report_file, an_summary>>
vars == <<pipeVars, harnessVars, anVars>>

(***************************************************************************)
(* Bounds of the model.                                                    *)
(***************************************************************************)
MaxNotices == 3    \* notices the adapters return, over all runs
TickDays == 90     \* days added by one step of the clock
MaxClock == 180    \* last day the clock reaches
MaxRuns == 3       \* runs of the analyzer
MaxResponses == 3  \* responses submitted to the form

Procs == {1, 2}    \* runs of main() that may exist
SeqProcs == {1}    \* the scheduled run (one at a time)

(***************************************************************************)
(* Strings.                                                                *)
(***************************************************************************)
LowerChar(c) ==
    CASE c = "A" -> "a" [] c = "B" -> "b" [] c = "C" -> "c" [] c = "D" -> "d"
      [] c = "E" -> "e" [] c = "F" -> "f" [] c = "G" -> "g" [] c = "H" -> "h"
      [] c = "I" -> "i" [] c = "J" -> "j" [] c = "K" -> "k" [] c = "L" -> "l"
      [] c = "M" -> "m" [] c = "N" -> "n" [] c = "O" -> "o" [] c = "P" -> "p"
      [] c = "Q" -> "q" [] c = "R" -> "r" [] c = "S" -> "s" [] c = "T" -> "t"
      [] c = "U" -> "u" [] c = "V" -> "v" [] c = "W" -> "w" [] c = "X" -> "x"
      [] c = "Y" -> "y" [] c = "Z" -> "z" [] OTHER -> c

RECURSIVE Lower(_)
Lower(s) ==
    IF Len(s) = 0 THEN ""
    ELSE LowerChar(SubSeq(s, 1, 1)) \o Lower(SubSeq(s, 2, Len(s)))

\* s occurs in text at position pos, compared case-insensitively
MatchAt(text, pos, s) ==
    /\ pos + Len(s) - 1 <= Len(text)
    /\ Lower(SubSeq(text, pos, pos + Len(s) - 1)) = Lower(s)

\* s occurs somewhere in text, compared case-insensitively
Occurs(text, s) == \E pos \in 1..Len(text) : MatchAt(text, pos, s)

RECURSIVE Join(_, _)
Join(sep, parts) ==
    IF Len(parts) = 0 THEN ""
    ELSE IF Len(parts) = 1 THEN parts[1]
    ELSE parts[1] \o sep \o Join(sep, Tail(parts))

\* list(dict.fromkeys(xs)): first occurrences, in order
RECURSIVE Unique(_)
Unique(xs) ==
    IF Len(xs) = 0 THEN <<>>
    ELSE LET front == Unique(SubSeq(xs, 1, Len(xs) - 1))
             last == xs[Len(xs)]
         IN IF \E k \in 1..Len(front) : front[k] = last
            THEN front ELSE Append(front, last)

Range(f) == {f[k] : k \in DOMAIN f}

(***************************************************************************)
(* Adapter records.  A record is a Python dict: a key may be absent, and   *)
(* the value of a key may be None (a JSON null passed on by an adapter).   *)
(***************************************************************************)
\* Python's None: a value that is no text
None == "<None>"

\* rfp.get(key, default)
get(rfp, key, default) == IF key \in DOMAIN rfp THEN rfp[key] ELSE default

\* v or ""
OrEmpty(v) == IF v = None THEN "" ELSE v

\* str(v) as an f-string renders it
Str(v) == IF v = None THEN "None" ELSE v

(***************************************************************************)
(* filters.py                                                              *)
(***************************************************************************)
\* part of the vocabulary, in the order of the source list
KEYWORDS ==
    << "economic impact", "economic development", "tax study",
       "impact study", "regional economic", "opioid", "CDFI",
       "transportation planning", "transit study", "opioid policy",
       "property tax" >>

\* part of the alternatives of EXCLUDE_PATTERN, in the order of the source
EXCLUDE_FRAGMENTS == << "forum", "expo", "gala", "tape", "catering" >>

\* variant: the pattern is anchored at the start of the text (re.match)
EXCLUDE_PATTERN_match(text) ==
    \E k \in 1..Len(EXCLUDE_FRAGMENTS) : MatchAt(text, 1, EXCLUDE_FRAGMENTS[k])

\* EXCLUDE_PATTERN.search(text) finds a match
EXCLUDE_PATTERN_search(text) ==
    \E k \in 1..Len(EXCLUDE_FRAGMENTS) : Occurs(text, EXCLUDE_FRAGMENTS[k])

\* first alternative of KEYWORD_PATTERN that matches at pos, 0 when none
FirstAlternative(text, pos) ==
    LET hits == {k \in 1..Len(KEYWORDS) : MatchAt(text, pos, KEYWORDS[k])}
    IN IF hits = {} THEN 0
       ELSE CHOOSE k \in hits : \A j \in hits : k <= j

\* KEYWORD_PATTERN.findall(text), scanning from pos: leftmost match first,
\* the scan resumes behind the match
RECURSIVE FindAllFrom(_, _)
FindAllFrom(text, pos) ==
    IF pos > Len(text) THEN <<>>
    ELSE LET k == FirstAlternative(text, pos)
         IN IF k = 0 THEN FindAllFrom(text, pos + 1)
            ELSE <<SubSeq(text, pos, pos + Len(KEYWORDS[k]) - 1)>>
                 \o FindAllFrom(text, pos + Len(KEYWORDS[k]))

KEYWORD_PATTERN_findall(text) == FindAllFrom(text, 1)

\* " ".join([...]) raises TypeError when an item is None
classify_rfp_raises(rfp) ==
    \E key \in {"title", "description", "agency"} : get(rfp, key, "") = None

ClassifyText(rfp) ==
    get(rfp, "title", "") \o " " \o get(rfp, "description", "") \o " "
        \o get(rfp, "agency", "")

classify_rfp(rfp) ==
    LET text == ClassifyText(rfp)
    IN IF EXCLUDE_PATTERN_search(text)
       THEN [match |-> FALSE, keywords |-> <<>>]
       ELSE LET found == KEYWORD_PATTERN_findall(text)
                unique == Unique([k \in 1..Len(found) |-> Lower(found[k])])
            IN [match |-> Len(unique) > 0, keywords |-> unique]

(***************************************************************************)
(* keywords.py                                                             *)
(***************************************************************************)
ENGLISH_STOP ==
    {
      "a", "an", "the", "and", "or", "but", "in", "on", "at", "to", "for",
      "of", "is", "it", "its", "by", "from", "with", "as", "be", "was",
      "were", "been", "being", "have", "has", "had", "do", "does", "did",
      "will", "would", "shall", "should", "may", "might", "can", "could",
      "this", "that", "these", "those", "am", "are", "not", "no", "nor",
      "so", "if", "then", "than", "too", "very", "each", "every", "all",
      "any", "both", "few", "more", "most", "other", "some", "such",
      "only", "own", "same", "just", "about", "above", "after", "again",
      "against", "before", "below", "between", "during", "into", "out",
      "over", "through", "under", "until", "up", "also", "how", "what",
      "which", "who", "whom", "why", "where", "when", "there", "here",
      "their", "them", "they", "he", "she", "her", "his", "him", "we",
      "our", "us", "you", "your", "me", "my" }

PROCUREMENT_STOP ==
    {
      "rfp", "rfq", "rfi", "ifb", "solicitation", "bid", "bids",
      "proposal", "proposals", "contract", "contracts", "amendment",
      "addendum", "addenda", "vendor", "vendors", "supplier", "suppliers",
      "bidder", "bidders", "services", "service", "provide", "providing",
      "provided", "provision", "procurement", "purchase", "purchasing",
      "request", "requests", "notice", "notices", "invitation",
      "invitations", "due", "date", "state", "county", "city", "town",
      "village", "district", "department", "dept", "division", "office",
      "agency", "bureau", "board", "commission", "authority", "university",
      "college", "school", "number", "num", "fiscal", "year", "month",
      "annual", "quarterly", "per", "new", "open", "closed", "awarded",
      "public", "issued", "release", "released", "issuing", "response",
      "responses", "submission", "submit", "submitted", "deadline",
      "period", "effective", "expiration", "renewal", "section", "item",
      "items", "page", "pages", "attachment", "exhibit", "appendix",
      "scope", "work", "required", "requirements", "requirement",
      "include", "includes", "including", "included", "shall", "must",
      "may", "general", "description", "specifications", "specification" }

STOP_WORDS == ENGLISH_STOP \cup PROCUREMENT_STOP

MIN_WORD_LEN == 3
MAX_KEY_TERMS == 10

\* the characters of lowercased text that \w matches, after the space, in
\* code point order
Alphabet == " 0123456789_abcdefghijklmnopqrstuvwxyz"

\* rank of a character in code point order (0 for any other character)
CharCode(c) ==
    IF \E i \in 1..Len(Alphabet) : SubSeq(Alphabet, i, i) = c
    THEN CHOOSE i \in 1..Len(Alphabet) : SubSeq(Alphabet, i, i) = c
    ELSE 0

IsSpace(c) == c = " "
IsDigit(c) == CharCode(c) \in 2..11
IsWordChar(c) == CharCode(c) >= 2

\* _PUNCT_RE.sub(" ", text): every character that is neither \w nor \s
\* becomes a space
RECURSIVE PUNCT_RE_sub(_)
PUNCT_RE_sub(text) ==
    IF Len(text) = 0 THEN ""
    ELSE LET c == SubSeq(text, 1, 1)
         IN (IF IsWordChar(c) \/ IsSpace(c) THEN c ELSE " ")
                \o PUNCT_RE_sub(SubSeq(text, 2, Len(text)))

\* _MULTI_SPACE.sub(" ", text): a run of spaces becomes one space
RECURSIVE MULTI_SPACE_sub(_)
MULTI_SPACE_sub(text) ==
    IF Len(text) <= 1 THEN text
    ELSE IF IsSpace(SubSeq(text, 1, 1)) /\ IsSpace(SubSeq(text, 2, 2))
         THEN MULTI_SPACE_sub(SubSeq(text, 2, Len(text)))
         ELSE SubSeq(text, 1, 1) \o MULTI_SPACE_sub(SubSeq(text, 2, Len(text)))

\* str.strip()
RECURSIVE strip(_)
strip(text) ==
    IF Len(text) = 0 THEN ""
    ELSE IF IsSpace(SubSeq(text, 1, 1)) THEN strip(SubSeq(text, 2, Len(text)))
    ELSE IF IsSpace(SubSeq(text, Len(text), Len(text)))
         THEN strip(SubSeq(text, 1, Len(text) - 1))
         ELSE text

\* str.split(): the maximal runs of non-space characters; cur is the run
\* being read
RECURSIVE SplitFrom(_, _)
SplitFrom(text, cur) ==
    IF Len(text) = 0 THEN (IF cur = "" THEN << >> ELSE << cur >>)
    ELSE LET c == SubSeq(text, 1, 1)
             rest == SubSeq(text, 2, Len(text))
         IN IF IsSpace(c)
            THEN (IF cur = "" THEN << >> ELSE << cur >>) \o SplitFrom(rest, "")
            ELSE SplitFrom(rest, cur \o c)

split(text) == SplitFrom(text, "")

\* _DIGITS_ONLY.match(tok)
DIGITS_ONLY_match(tok) ==
    /\ Len(tok) > 0
    /\ \A i \in 1..Len(tok) : IsDigit(SubSeq(tok, i, i))

KeepToken(tok) ==
    /\ Len(tok) >= MIN_WORD_LEN
    /\ ~DIGITS_ONLY_match(tok)
    /\ tok \notin STOP_WORDS

tokenize(text) ==
    SelectSeq(split(strip(MULTI_SPACE_sub(PUNCT_RE_sub(Lower(text))))),
              KeepToken)

\* as bigrams, pairing the tokens two by two
bigrams_disjoint(tokens) ==
    [i \in 1..(Len(tokens) \div 2) |->
        tokens[2 * i - 1] \o " " \o tokens[2 * i]]

bigrams(tokens) ==
    [i \in 1..(Len(tokens) - 1) |-> tokens[i] \o " " \o tokens[i + 1]]

\* number of times x is in the list xs
Count(xs, x) == Cardinality({i \in 1..Len(xs) : xs[i] = x})

\* sub in s, for strings (case-sensitive)
Contains(s, sub) ==
    \E pos \in 1..(Len(s) - Len(sub) + 1) :
        SubSeq(s, pos, pos + Len(sub) - 1) = sub

\* as ScoredTerms, keeping the unigrams that are in a bigram
ScoredTerms_keep_unigrams(tokens) ==
    LET bi == bigrams(tokens)
        bis == Unique(bi)
        unis == Unique(tokens)
    IN [k \in 1..Len(bis) |-> [term |-> bis[k], score |-> 2 * Count(bi, bis[k])]]
       \o [k \in 1..Len(unis) |->
              [term |-> unis[k], score |-> Count(tokens, unis[k])]]

\* the list scored (lines 117-125): every bigram with twice its count, then
\* every unigram that is in no bigram with its count
ScoredTerms(tokens) ==
    LET bi == bigrams(tokens)
        covered(term) == \E b \in Range(bi) : Contains(b, term)
        bis == Unique(bi)
        unis == SelectSeq(Unique(tokens), LAMBDA term : ~covered(term))
    IN [k \in 1..Len(bis) |-> [term |-> bis[k], score |-> 2 * Count(bi, bis[k])]]
       \o [k \in 1..Len(unis) |->
              [term |-> unis[k], score |-> Count(tokens, unis[k])]]

\* a < b for strings, as Python compares them: by code point
RECURSIVE StrLess(_, _)
StrLess(a, b) ==
    IF Len(a) = 0 THEN Len(b) > 0
    ELSE IF Len(b) = 0 THEN FALSE
    ELSE LET ca == CharCode(SubSeq(a, 1, 1))
             cb == CharCode(SubSeq(b, 1, 1))
         IN \/ ca < cb
            \/ ca = cb /\ StrLess(SubSeq(a, 2, Len(a)), SubSeq(b, 2, Len(b)))

\* as KeyLess, with ties broken in reverse alphabetical order
KeyLess_ties_reversed(x, y) ==
    \/ x.score > y.score
    \/ x.score = y.score /\ StrLess(y.term, x.term)

\* the sort key (-score, term) of x is smaller than that of y
KeyLess(x, y) ==
    \/ x.score > y.score
    \/ x.score = y.score /\ StrLess(x.term, y.term)

\* list.sort(key=...): stable, ascending in the key
RECURSIVE SortScored(_)
SortScored(scored) ==
    IF Len(scored) = 0 THEN << >>
    ELSE LET x == scored[Len(scored)]
             front == SortScored(SubSeq(scored, 1, Len(scored) - 1))
             k == Cardinality({i \in 1..Len(front) : ~KeyLess(x, front[i])})
         IN SubSeq(front, 1, k) \o << x >> \o SubSeq(front, k + 1, Len(front))

\* as DedupeAndCap, without the cap
DedupeAndCap_uncapped(terms) == Unique(terms)

\* lines 130-138: drop repeated terms, stop at MAX_KEY_TERMS
DedupeAndCap(terms) ==
    LET u == Unique(terms)
    IN SubSeq(u, 1, IF Len(u) < MAX_KEY_TERMS THEN Len(u) ELSE MAX_KEY_TERMS)

\* title, description and agency as extract_key_terms reads them
KeyTermsText(rfp) ==
    LET title == OrEmpty(get(rfp, "title", ""))
        desc0 == OrEmpty(get(rfp, "description", ""))
        agency == OrEmpty(get(rfp, "agency", ""))
        desc == IF Lower(strip(desc0)) = Lower(strip(title)) THEN "" ELSE desc0
    IN strip(title \o " " \o desc \o " " \o agency)

extract_key_terms(rfp) ==
    LET text == KeyTermsText(rfp)
        tokens == tokenize(text)
        sorted == SortScored(ScoredTerms(tokens))
    IN IF text = "" THEN << >>
       ELSE IF tokens = << >> THEN << >>
       ELSE DedupeAndCap([k \in 1..Len(sorted) |-> sorted[k].term])

(***************************************************************************)
(* storage.py                                                              *)
(***************************************************************************)
EmptyDict == [h \in {} |-> {}]

\* hashlib.sha256(raw.encode()).hexdigest()[:16]: the digest is taken as
\* collision-free, so it is a tag on the string that is hashed
sha256_hex16(raw) == "sha:" \o raw

rfp_hash(rfp) ==
    sha256_hex16(Str(get(rfp, "state", "")) \o "-" \o Str(get(rfp, "id", ""))
                     \o "-" \o Str(get(rfp, "title", "")))

\* normal operation (not the historical backfill)
HISTORICAL_MODE == FALSE

SEEN_TTL_DAYS == IF HISTORICAL_MODE THEN 36500 ELSE 90

load_seen == seen_file

\* variant: the comparison with the cutoff is inverted
prune_seen_inverted(s) ==
    LET cutoff == clock - SEEN_TTL_DAYS
        kept == {k \in DOMAIN s : s[k].first_seen <= cutoff}
    IN [k \in kept |-> s[k]]

\* entries whose first_seen is not before the cutoff are kept
prune_seen(s) ==
    LET cutoff == clock - SEEN_TTL_DAYS
        kept == {k \in DOMAIN s : s[k].first_seen >= cutoff}
    IN [k \in kept |-> s[k]]

NoFile == [exists |-> FALSE, readable |-> FALSE, rows |-> <<>>]
TornFile == [exists |-> TRUE, readable |-> FALSE, rows |-> <<>>]

\* variant: the existing table is not read back
append_rfps_table_new_only(file, rows) == rows

\* the table that pq.write_table writes when the call runs to its end
append_rfps_table(file, rows) ==
    IF file.exists THEN file.rows \o rows ELSE rows

\* the file after a call of append_rfps that returns
append_rfps_file(file, rows) ==
    IF Len(rows) = 0 THEN file
    ELSE [exists |-> TRUE, readable |-> TRUE,
          rows |-> append_rfps_table(file, rows)]

append_rfps_count(rows) == Len(rows)

(***************************************************************************)
(* analyze_keywords.py.  Scores are counted in units of 0.0001; a dict is  *)
(* the list of its (key, value) items in insertion order.                  *)
(***************************************************************************)
TOP_N_OVERALL == 50
TOP_N_RAKE == 50
TOP_N_GAPS == 30
RISING_SHOWN == 15

\* xs[:n]
Take(xs, n) == SubSeq(xs, 1, IF Len(xs) < n THEN Len(xs) ELSE n)

\* d.keys()
Keys(d) == {d[k][1] : k \in 1..Len(d)}

\* d[key]
Value(d, key) == d[CHOOSE k \in 1..Len(d) : d[k][1] = key][2]

\* {term: score for term, score in pairs}: a key keeps its first position
\* and its last value
DictOf(pairs) ==
    LET keys == Unique([k \in 1..Len(pairs) |-> pairs[k][1]])
        last(key) == CHOOSE k \in 1..Len(pairs) :
                        /\ pairs[k][1] = key
                        /\ \A j \in (k + 1)..Len(pairs) : pairs[j][1] # key
    IN [i \in 1..Len(keys) |-> << keys[i], pairs[last(keys[i])][2] >>]

\* the snapshot dict built at lines 414-419
Snapshot(in, t) ==
    [timestamp |-> t,
     top_tfidf |-> DictOf(Take(in.top, TOP_N_OVERALL)),
     gap_terms |-> DictOf(Take(in.gaps, TOP_N_GAPS)),
     rake_phrases |-> [k \in 1..Len(Take(in.rake, TOP_N_RAKE)) |-> in.rake[k][2]]]

NoSnapshotFile == [status |-> "absent", content |-> EmptyDict]
GarbledSnapshotFile == [status |-> "garbled", content |-> EmptyDict]

\* as load_previous_top_terms, never reading the file
load_previous_top_terms_none(file) == EmptyDict

\* _load_previous_top_terms: {} when the file does not exist, cannot be
\* opened (IOError) or is text that does not parse (JSONDecodeError)
load_previous_top_terms(file) ==
    IF file.status = "json" THEN file.content ELSE EmptyDict

\* json.load raises UnicodeDecodeError, which line 92 does not catch, when
\* the bytes of the file are not text in the encoding of open()
load_previous_top_terms_raises(file) == file.status = "undecodable"

\* _save_top_terms
save_top_terms(file, terms) == [status |-> "json", content |-> terms]

\* if not prev_tfidf
IsBaseline(previous) == Len(get(previous, "top_tfidf", << >>)) = 0

\* as NewTerms, without the difference
NewTerms_all(current, prev) == current

\* line 442
NewTerms(current, prev) == current \ prev

\* line 443
DroppedTerms(current, prev) == prev \ current

\* as NewEntries, without the difference
NewEntries_all(current, prev) == current

\* lines 476 and 486
NewEntries(current, prev) == current \ prev

\* as Rises, with a rise of exactly 10% counted
Rises_at_least(prev_score, score) ==
    prev_score > 0 /\ 10 * (score - prev_score) >= prev_score

\* prev_score > 0 and (score - prev_score) / prev_score > 0.10
Rises(prev_score, score) ==
    prev_score > 0 /\ 10 * (score - prev_score) > prev_score

\* the list rising of lines 458-463, in the order of the current dict
RisingTerms(top_tfidf, prev_tfidf) ==
    LET both == SelectSeq(top_tfidf,
                    LAMBDA item : /\ item[1] \in Keys(prev_tfidf)
                                  /\ Rises(Value(prev_tfidf, item[1]), item[2]))
    IN [k \in 1..Len(both) |->
           [term |-> both[k][1], old |-> Value(prev_tfidf, both[k][1]),
            new |-> both[k][2]]]

\* the relative rise of x is larger than that of y
MoreRise(x, y) == (x.new - x.old) * y.old > (y.new - y.old) * x.old

\* rising.sort(key=..., reverse=True): stable, descending in the rise
RECURSIVE SortRising(_)
SortRising(rising) ==
    IF Len(rising) = 0 THEN << >>
    ELSE LET x == rising[Len(rising)]
             front == SortRising(SubSeq(rising, 1, Len(rising) - 1))
             k == Cardinality({i \in 1..Len(front) : ~MoreRise(x, front[i])})
         IN SubSeq(front, 1, k) \o << x >> \o SubSeq(front, k + 1, Len(front))

\* a section of the report, when it is emitted
Section(name, emitted, content) ==
    IF emitted THEN name :> content ELSE EmptyDict

\* lines 433-434
BaselineReport == "baseline" :> TRUE

\* the sections of lines 438-490
DiffReport(snapshot, previous) ==
    LET prev_tfidf == get(previous, "top_tfidf", << >>)
        prev_gaps == Keys(get(previous, "gap_terms", << >>))
        prev_rake == Range(get(previous, "rake_phrases", << >>))
        new_terms == NewTerms(Keys(snapshot.top_tfidf), Keys(prev_tfidf))
        dropped_terms == DroppedTerms(Keys(snapshot.top_tfidf), Keys(prev_tfidf))
        rising == SortRising(RisingTerms(snapshot.top_tfidf, prev_tfidf))
        new_gaps == NewEntries(Keys(snapshot.gap_terms), prev_gaps)
        new_rake == NewEntries(Range(snapshot.rake_phrases), prev_rake)
    IN Section("new_terms", new_terms # {}, new_terms)
       @@ Section("no_new_terms", new_terms = {}, TRUE)
       @@ Section("dropped_terms", dropped_terms # {}, dropped_terms)
       @@ Section("rising", Len(rising) > 0,
                  [count |-> Len(rising),
                   shown |-> [k \in 1..Len(Take(rising, RISING_SHOWN)) |->
                                 rising[k].term]])
       @@ Section("new_gaps", new_gaps # {}, new_gaps)
       @@ Section("new_rake", new_rake # {}, new_rake)

\* results of tfidf_analysis, gap_analysis and rake_analysis on the store
Words ==
    << "levee", "dam", "pier", "dock", "quay", "weir", "lock", "pump",
       "pipe", "duct", "vent", "roof", "housing", "transit", "broadband",
       "childcare", "sewer" >>

NoAnalysis == [top |-> << >>, gaps |-> << >>, rake |-> << >>]

Analyses ==
    { NoAnalysis,
      [top |-> << <<"housing", 100>>, <<"transit", 100>> >>,
       gaps |-> << <<"levee", 40>> >>,
       rake |-> << <<9, "rural broadband">> >>],
      [top |-> << <<"housing", 160>>, <<"transit", 110>>, <<"broadband", 100>> >>,
       gaps |-> << <<"broadband", 50>>, <<"sewer", 20>> >>,
       rake |-> << <<8, "transit study">>, <<7, "sewer lining">> >>],
      [top |-> << <<"transit", 111>>, <<"housing", 100>>, <<"childcare", 90>> >>,
       gaps |-> << <<"levee", 40>>, <<"broadband", 30>> >>,
       rake |-> << <<9, "rural broadband">>, <<8, "transit study">> >>],
      [top |-> [k \in 1..Len(Words) |-> << Words[k], 100 >>],
       gaps |-> << >>, rake |-> << >>],
      [top |-> [k \in 1..Len(Words) |->
                   << Words[k], IF k = Len(Words) THEN 110 ELSE 120 + k >>],
       gaps |-> << >>, rake |-> << >>] }

MIN_DF == 2
MAX_DF_PERCENT == 85

\* _load_rfps returns a frame with rows: the file exists, pq.read_table reads
\* it and it has rows
load_rfps_has_rows(file) == file.exists /\ file.readable /\ Len(file.rows) > 0

\* pq.read_table raises: the file exists and is not a Parquet file
load_rfps_raises(file) == file.exists /\ ~file.readable

\* the outcomes of vectorizer.fit_transform on a corpus of these rows: with
\* min_df=2 and max_df=0.85 it raises ValueError when max_df * n_docs is
\* below min_df, and when no term is left after pruning
Fits(rows) ==
    IF MAX_DF_PERCENT * Len(rows) < 100 * MIN_DF
    THEN { "max_df corresponds to < documents than min_df" }
    ELSE { "ok", "After pruning, no terms remain" }

\* tfidf_analysis: the top terms it returns and what it puts in the report
tfidf_analysis(fit, a) ==
    IF fit = "ok"
    THEN [top_terms |-> Take(a.top, TOP_N_OVERALL),
          lines |-> "tfidf_top" :> Take(a.top, TOP_N_OVERALL)]
    ELSE [top_terms |-> << >>, lines |-> "tfidf_failed" :> fit]

\* gap_analysis, which fits a vectorizer of the same parameters on the same
\* text: the gap terms it returns and what it puts in the report
gap_analysis(fit, a) ==
    IF fit = "ok"
    THEN [gap_terms |-> Take(a.gaps, TOP_N_GAPS),
          lines |-> "gap_top" :> Take(a.gaps, TOP_N_GAPS)]
    ELSE [gap_terms |-> << >>, lines |-> "gap_failed" :> TRUE]

\* lines 541-544: the snapshot file is read again, after detect_new_terms
\* has written it
new_count(file, snapshot) ==
    LET prev == load_previous_top_terms(file)
        same_run == IF "timestamp" \in DOMAIN prev
                    THEN prev.timestamp = snapshot.timestamp ELSE FALSE
        prev_tfidf == IF same_run THEN {}
                      ELSE Keys(get(prev, "top_tfidf", << >>))
        current_tfidf == Keys(snapshot.top_tfidf)
    IN IF prev_tfidf # {} THEN Cardinality(current_tfidf \ prev_tfidf) ELSE 0

\* lines 546-555: the parts of the summary string
Summary(rows, in, n) ==
    [rfps |-> Len(rows),
     top_tfidf |-> IF Len(in.top) > 0 THEN in.top[1][1] ELSE "n/a",
     gap_candidates |-> Len(in.gaps)]
    @@ Section("new_terms", n # 0, n)

\* line 510
SkippedSummary == "skipped" :> TRUE

AnalyzerInit ==
    /\ top_terms_file = NoSnapshotFile
    /\ an_pc = "idle"
    /\ an_in = NoAnalysis
    /\ an_clock = 0
    /\ an_previous = EmptyDict
    /\ an_report = EmptyDict
    /\ an_writes = 0
    /\ an_file0 = NoSnapshotFile
    /\ an_latest = EmptyDict
    /\ an_lines = EmptyDict
    /\ report_file = EmptyDict
    /\ an_summary = EmptyDict

\* run_analysis up to the call of detect_new_terms (lines 501-530); every
\* run reads the clock later than the run before it
AnStart ==
    /\ an_pc \in {"idle", "failed"}
    /\ an_clock < MaxRuns
    /\ load_rfps_has_rows(parquet_file)
    /\ \E a \in Analyses, fit \in Fits(parquet_file.rows) :
          /\ fit = "ok" => a.top # << >>
          /\ an_in' = [top |-> tfidf_analysis(fit, a).top_terms,
                       gaps |-> gap_analysis(fit, a).gap_terms,
                       rake |-> Take(a.rake, TOP_N_RAKE)]
          /\ an_lines' = tfidf_analysis(fit, a).lines @@ gap_analysis(fit, a).lines
    /\ an_clock' = an_clock + 1
    /\ an_pc' = "load"
    /\ an_previous' = EmptyDict
    /\ an_report' = EmptyDict
    /\ an_summary' = EmptyDict
    /\ an_writes' = 0
    /\ UNCHANGED <<top_terms_file, an_file0, an_latest, report_file, pipeVars,
                   harnessVars>>

\* lines 508-510: there is no Store file, run_analysis returns at once
AnSkip ==
    /\ an_pc \in {"idle", "failed"}
    /\ an_clock < MaxRuns
    /\ ~parquet_file.exists
    /\ an_clock' = an_clock + 1
    /\ an_pc' = "idle"
    /\ an_in' = NoAnalysis
    /\ an_lines' = EmptyDict
    /\ an_previous' = EmptyDict
    /\ an_report' = EmptyDict
    /\ an_summary' = SkippedSummary
    /\ an_writes' = 0
    /\ UNCHANGED <<top_terms_file, an_file0, an_latest, report_file, pipeVars,
                   harnessVars>>

\* line 508: pq.read_table raises in _load_rfps, run_analysis ends with the
\* exception
AnLoadRfpsRaises ==
    /\ an_pc \in {"idle", "failed"}
    /\ an_clock < MaxRuns
    /\ load_rfps_raises(parquet_file)
    /\ an_clock' = an_clock + 1
    /\ an_pc' = "failed"
    /\ an_in' = NoAnalysis
    /\ an_lines' = EmptyDict
    /\ an_previous' = EmptyDict
    /\ an_report' = EmptyDict
    /\ an_summary' = EmptyDict
    /\ an_writes' = 0
    /\ UNCHANGED <<top_terms_file, an_file0, an_latest, report_file, pipeVars,
                   harnessVars>>

\* line 411
AnLoad ==
    /\ an_pc = "load"
    /\ ~load_previous_top_terms_raises(top_terms_file)
    /\ an_previous' = load_previous_top_terms(top_terms_file)
    /\ an_file0' = top_terms_file
    /\ an_pc' = "diff"
    /\ UNCHANGED <<top_terms_file, an_in, an_clock, an_report, an_writes,
                   an_latest, an_lines, report_file, an_summary, pipeVars,
                   harnessVars>>

\* line 411 raises: run_analysis ends with the exception, which main()
\* logs (main.py lines 98-104)
AnLoadRaises ==
    /\ an_pc = "load"
    /\ load_previous_top_terms_raises(top_terms_file)
    /\ an_file0' = top_terms_file
    /\ an_pc' = "failed"
    /\ UNCHANGED <<top_terms_file, an_in, an_clock, an_previous, an_report,
                   an_writes, an_latest, an_lines, report_file, an_summary,
                   pipeVars, harnessVars>>

\* lines 536-555: the report file is written and the summary is built from
\* the snapshot file as detect_new_terms left it
AnReturn ==
    /\ report_file' = an_lines @@ an_report'
    /\ an_summary' = Summary(parquet_file.rows, an_in,
                             new_count(top_terms_file', Snapshot(an_in, an_clock)))
    /\ an_pc' = "idle"

\* lines 413-436 and 536-555: no previous top terms
AnBaseline ==
    /\ an_pc = "diff"
    /\ IsBaseline(an_previous)
    /\ an_report' = BaselineReport
    /\ top_terms_file' = save_top_terms(top_terms_file, Snapshot(an_in, an_clock))
    /\ an_writes' = an_writes + 1
    /\ an_latest' = Snapshot(an_in, an_clock)
    /\ AnReturn
    /\ UNCHANGED <<an_in, an_clock, an_previous, an_file0, an_lines, pipeVars,
                   harnessVars>>

\* lines 413-431, 438-493 and 536-555
AnDiff ==
    /\ an_pc = "diff"
    /\ ~IsBaseline(an_previous)
    /\ an_report' = DiffReport(Snapshot(an_in, an_clock), an_previous)
    /\ top_terms_file' = save_top_terms(top_terms_file, Snapshot(an_in, an_clock))
    /\ an_writes' = an_writes + 1
    /\ an_latest' = Snapshot(an_in, an_clock)
    /\ AnReturn
    /\ UNCHANGED <<an_in, an_clock, an_previous, an_file0, an_lines, pipeVars,
                   harnessVars>>

\* the process ends inside _save_top_terms: open(..., "w") has truncated
\* the file and json.dump has written a part of it
AnSaveInterrupted ==
    /\ an_pc = "diff"
    /\ top_terms_file' = GarbledSnapshotFile
    /\ an_writes' = an_writes + 1
    /\ an_report' = EmptyDict
    /\ an_pc' = "idle"
    /\ UNCHANGED <<an_in, an_clock, an_previous, an_file0, an_latest, an_lines,
                   report_file, an_summary, pipeVars, harnessVars>>

\* between runs the file is removed, can no longer be opened, or its bytes
\* are damaged
SnapshotDamaged ==
    /\ an_pc = "idle"
    /\ top_terms_file.status = "json"
    /\ \E st \in {"absent", "unreadable", "undecodable"} :
          top_terms_file' = [status |-> st, content |-> EmptyDict]
    /\ UNCHANGED <<an_pc, an_in, an_clock, an_previous, an_report, an_writes,
                   an_file0, an_latest, an_lines, report_file, an_summary,
                   pipeVars, harnessVars>>

AnalyzerNext ==
    \/ AnStart
    \/ AnSkip
    \/ AnLoadRfpsRaises
    \/ AnLoad
    \/ AnLoadRaises
    \/ AnBaseline
    \/ AnDiff
    \/ AnSaveInterrupted
    \/ SnapshotDamaged

(***************************************************************************)
(* generate_site.py and email_digest.py                                    *)
(***************************************************************************)
TOP_TFIDF_SHOWN == 20
GAP_TERMS_SHOWN == 15
RAKE_SHOWN == 15
WEEK_DAYS == 7

\* sorted(d.items(), key=lambda x: -x[1]): stable, descending in the score
RECURSIVE SortByScore(_)
SortByScore(items) ==
    IF Len(items) = 0 THEN << >>
    ELSE LET x == items[Len(items)]
             front == SortByScore(SubSeq(items, 1, Len(items) - 1))
             k == Cardinality({i \in 1..Len(front) : front[i][2] >= x[2]})
         IN SubSeq(front, 1, k) \o << x >> \o SubSeq(front, k + 1, Len(front))

\* the terms of the n highest scores of the dict
TopTerms(d, n) ==
    LET sorted == Take(SortByScore(d), n)
    IN [k \in 1..Len(sorted) |-> sorted[k][1]]

\* build_summary_data: the counts, and the top terms of the snapshot file
\* when there is one
build_summary_data(file, snapshot_file) ==
    LET matched == SelectSeq(file.rows, LAMBDA row : row.keyword_match)
        top_terms == snapshot_file.content
    IN [total_rfps |-> Len(file.rows),
        keyword_matches |-> Len(matched),
        states_covered |-> Cardinality({file.rows[k].state : k \in 1..Len(file.rows)}),
        top_tfidf |-> IF snapshot_file.status = "absent" THEN << >>
                      ELSE TopTerms(get(top_terms, "top_tfidf", << >>), TOP_TFIDF_SHOWN),
        gap_terms |-> IF snapshot_file.status = "absent" THEN << >>
                      ELSE TopTerms(get(top_terms, "gap_terms", << >>), GAP_TERMS_SHOWN),
        rake_phrases |-> IF snapshot_file.status = "absent" THEN << >>
                         ELSE Take(get(top_terms, "rake_phrases", << >>), RAKE_SHOWN)]

\* pq.read_table (line 53) or json.load (line 116) raises
build_summary_data_raises(file, snapshot_file) ==
    \/ ~file.readable
    \/ snapshot_file.status \in {"unreadable", "garbled", "undecodable"}

\* variant: the summary is dumped to the path of the Store
GenerateSite_writes_store ==
    /\ an_pc \in {"idle", "failed"}
    /\ parquet_file.exists
    /\ ~build_summary_data_raises(parquet_file, top_terms_file)
    /\ docs' = build_summary_data(parquet_file, top_terms_file)
    /\ parquet_file' = TornFile
    /\ UNCHANGED <<clock, seen_file, fetched, pc, all_rfps, seen, new_rfps, now,
                   idx, written, seen0, store0, rejected, held, last_batch,
                   last_held, last_complete, origin, outbox, clVars, ktVars,
                   scVars, anVars, kwVars>>

\* generate_site(): render_html writes the summary to docs/data/summary.json
\* and docs/index.html
GenerateSite ==
    /\ an_pc \in {"idle", "failed"}
    /\ parquet_file.exists
    /\ ~build_summary_data_raises(parquet_file, top_terms_file)
    /\ docs' = build_summary_data(parquet_file, top_terms_file)
    /\ UNCHANGED <<pipeVars, outbox, clVars, ktVars, scVars, anVars, kwVars>>

\* _read_today_matches and _read_week_matches: the matched rows scraped on
\* the day since or later
read_matches(file, since) ==
    IF ~file.exists THEN << >>
    ELSE SelectSeq(file.rows,
                   LAMBDA row : row.scrape_date >= since /\ row.keyword_match)

\* team_config.template.py
TEAM_MEMBERS ==
    << [name |-> "Jane Doe", email |-> "jdoe@university.edu",
        patterns |-> << "economic development", "fiscal analysis",
                        "cost-benefit", "impact study" >>] >>

\* the rows in which a pattern of the member occurs (lines 263-278)
personal_rfps(member, rfps) ==
    SelectSeq(rfps,
              LAMBDA row : \E k \in 1..Len(member.patterns) :
                              Occurs(ClassifyText(row), member.patterns[k]))

\* send_daily_email(): one mail with the matches of today, when there are
\* any; sending may fail, which is logged
SendDailyEmail ==
    /\ an_pc \in {"idle", "failed"}
    /\ ~load_rfps_raises(parquet_file)
    /\ LET rfps == read_matches(parquet_file, clock)
       IN \E delivered \in BOOLEAN :
             outbox' = IF Len(rfps) > 0 /\ delivered
                       THEN outbox \cup {[to |-> "EMAIL_TO", matches |-> Len(rfps)]}
                       ELSE outbox
    /\ UNCHANGED <<pipeVars, docs, clVars, ktVars, scVars, anVars, kwVars>>

\* send_team_digest(): one mail for each member with matches of the past
\* seven days in which a pattern of the member occurs
SendTeamDigest ==
    /\ an_pc \in {"idle", "failed"}
    /\ ~load_rfps_raises(parquet_file)
    /\ LET all == read_matches(parquet_file, clock - WEEK_DAYS)
           mails == {[to |-> TEAM_MEMBERS[k].email,
                      matches |-> Len(personal_rfps(TEAM_MEMBERS[k], all))] :
                        k \in {j \in 1..Len(TEAM_MEMBERS) :
                                  Len(personal_rfps(TEAM_MEMBERS[j], all)) > 0}}
       IN \E delivered \in SUBSET mails : outbox' = outbox \cup delivered
    /\ UNCHANGED <<pipeVars, docs, clVars, ktVars, scVars, anVars, kwVars>>

(***************************************************************************)
(* keyword_updates.py.  A row of the published CSV is a record of the      *)
(* columns the code reads: ts (0), email (1), add (4) and remove (5); a    *)
(* row that is too short has no remove column.                             *)
(***************************************************************************)
\* characters of timestamps, addresses and keywords, in code point order
Ascii ==
    " -./0123456789:@ABCDEFGHIJKLMNOPQRSTUVWXYZ_abcdefghijklmnopqrstuvwxyz"

AsciiCode(c) == CHOOSE i \in 1..Len(Ascii) : SubSeq(Ascii, i, i) = c

\* a < b as Python compares two str
RECURSIVE TextLess(_, _)
TextLess(a, b) ==
    IF Len(a) = 0 THEN Len(b) > 0
    ELSE IF Len(b) = 0 THEN FALSE
    ELSE LET ca == SubSeq(a, 1, 1)
             cb == SubSeq(b, 1, 1)
         IN IF ca = cb THEN TextLess(SubSeq(a, 2, Len(a)), SubSeq(b, 2, Len(b)))
            ELSE AsciiCode(ca) < AsciiCode(cb)

\* sorted(s) for a set of str
RECURSIVE Sorted(_)
Sorted(s) ==
    IF s = {} THEN << >>
    ELSE LET m == CHOOSE x \in s : \A y \in s \ {x} : TextLess(x, y)
         IN << m >> \o Sorted(s \ {m})

IsWhitespace(c) == c = " " \/ c = "\n"

\* str.strip() on text that may hold line breaks
RECURSIVE StripWs(_)
StripWs(text) ==
    IF Len(text) = 0 THEN ""
    ELSE IF IsWhitespace(SubSeq(text, 1, 1))
         THEN StripWs(SubSeq(text, 2, Len(text)))
    ELSE IF IsWhitespace(SubSeq(text, Len(text), Len(text)))
         THEN StripWs(SubSeq(text, 1, Len(text) - 1))
         ELSE text

\* str.split(sep) for a separator of one character; cur is the part being
\* read
RECURSIVE SplitOn(_, _, _)
SplitOn(text, sep, cur) ==
    IF Len(text) = 0 THEN << cur >>
    ELSE IF SubSeq(text, 1, 1) = sep
         THEN << cur >> \o SplitOn(SubSeq(text, 2, Len(text)), sep, "")
         ELSE SplitOn(SubSeq(text, 2, Len(text)), sep, cur \o SubSeq(text, 1, 1))

\* _parse_keywords
parse_keywords(raw) ==
    IF StripWs(raw) = "" THEN << >>
    ELSE LET parts == IF Contains(raw, ",") THEN SplitOn(raw, ",", "")
                      ELSE SplitOn(raw, "\n", "")
             kept == SelectSeq(parts, LAMBDA p : StripWs(p) # "")
         IN [k \in 1..Len(kept) |-> Lower(StripWs(kept[k]))]

NoOverridesFile ==
    [status |-> "absent",
     content |-> [last_processed_timestamp |-> "", members |-> EmptyDict]]

\* _load_overrides
load_overrides(file) ==
    IF file.status = "json" THEN file.content
    ELSE [last_processed_timestamp |-> "", members |-> EmptyDict]

\* _save_overrides
save_overrides(data) == [status |-> "json", content |-> data]

\* EMAIL_ALIASES is empty
resolve_email(form_email, team_emails) ==
    LET email == Lower(StripWs(form_email))
    IN IF email \in team_emails THEN email ELSE None

\* as MergeKeywords, without the discards
MergeKeywords_no_discard(member_data, additions, removals) ==
    [additions |-> Sorted(Range(member_data.additions) \cup Range(additions)),
     removals |-> Sorted(Range(member_data.removals) \cup Range(removals))]

\* lines 148-159: the additions of the response, then its removals
MergeKeywords(member_data, additions, removals) ==
    LET adds1 == Range(member_data.additions) \cup Range(additions)
        rems1 == Range(member_data.removals) \ Range(additions)
        rems2 == rems1 \cup Range(removals)
        adds2 == adds1 \ Range(removals)
    IN [additions |-> Sorted(adds2), removals |-> Sorted(rems2)]

\* the later of two timestamps, as strings (lines 124, 135 and 169)
Newest(newest_ts, row_ts) ==
    IF TextLess(newest_ts, row_ts) THEN row_ts ELSE newest_ts

\* one iteration of the loop of lines 109-171; st holds overrides,
\* new_count and newest_ts
ProcessRow(st, row, last_ts, team_emails) ==
    IF "remove" \notin DOMAIN row THEN st
    ELSE LET row_ts == StripWs(row.ts)
             resolved == resolve_email(StripWs(row.email), team_emails)
             raw_add == StripWs(row.add)
             raw_remove == StripWs(row.remove)
             additions == parse_keywords(raw_add)
             removals == parse_keywords(raw_remove)
             members == st.overrides.members
             member_data ==
                 IF resolved \in DOMAIN members THEN members[resolved]
                 ELSE [additions |-> << >>, removals |-> << >>,
                       history |-> << >>]
             merged == MergeKeywords(member_data, additions, removals)
             updated ==
                 [additions |-> merged.additions,
                  removals |-> merged.removals,
                  history |-> Append(member_data.history,
                                 [timestamp |-> row_ts, added |-> additions,
                                  removed |-> removals, raw_add |-> raw_add,
                                  raw_remove |-> raw_remove])]
             seen_ts == [st EXCEPT !.newest_ts = Newest(@, row_ts)]
         IN IF ~TextLess(last_ts, row_ts) THEN st
            ELSE IF resolved = None THEN seen_ts
            ELSE IF Len(additions) = 0 /\ Len(removals) = 0 THEN seen_ts
            ELSE [overrides |->
                      [st.overrides EXCEPT !.members =
                          [e \in DOMAIN members \cup {resolved} |->
                              IF e = resolved THEN updated ELSE members[e]]],
                  new_count |-> st.new_count + 1,
                  newest_ts |-> Newest(st.newest_ts, row_ts)]

RECURSIVE ProcessRows(_, _, _, _)
ProcessRows(st, rows, last_ts, team_emails) ==
    IF Len(rows) = 0 THEN st
    ELSE ProcessRows(ProcessRow(st, rows[1], last_ts, team_emails),
                     Tail(rows), last_ts, team_emails)

\* sync_form_responses with FORM_RESPONSES_CSV_URL set and the CSV
\* fetched: the overrides it saves and the count it returns
sync_form_responses(team_members, rows, file) ==
    LET team_emails == {Lower(StripWs(team_members[k].email)) :
                            k \in 1..Len(team_members)}
        overrides == load_overrides(file)
        last_ts == overrides.last_processed_timestamp
        st == ProcessRows([overrides |-> overrides, new_count |-> 0,
                           newest_ts |-> last_ts],
                          rows, last_ts, team_emails)
    IN [saved |-> [st.overrides EXCEPT
                       !.last_processed_timestamp = st.newest_ts],
        returned |-> st.new_count]

get_effective_patterns(member, file) ==
    LET members == load_overrides(file).members
        email == Lower(StripWs(member.email))
    IN IF email \notin DOMAIN members THEN member.patterns
       ELSE Sorted(({Lower(member.patterns[k]) : k \in 1..Len(member.patterns)}
                        \cup Range(members[email].additions))
                   \ Range(members[email].removals))

\* the timestamps the form gives to successive responses
FormTimes ==
    << "9/29/2024 8:00:00", "9/30/2024 10:00:00", "10/1/2024 9:00:00",
       "10/2/2024 9:00:00", "10/3/2024 9:00:00" >>

\* what a response may hold
FormAnswers ==
    { [email |-> "jdoe@university.edu", add |-> "Housing, transit",
       remove |-> ""],
      [email |-> "jdoe@university.edu", add |-> "", remove |-> "housing"],
      [email |-> " JDoe@University.edu ", add |-> "levee",
       remove |-> "Levee, Transit"],
      [email |-> "jdoe@university.edu", add |-> "housing", remove |-> " "],
      [email |-> "jdoe@university.edu", add |-> "",
       remove |-> "impact study\ncost-benefit"],
      [email |-> "stranger@gmail.com", add |-> "casino", remove |-> ""],
      [email |-> "jdoe@university.edu", add |-> " ", remove |-> ""],
      [email |-> "jdoe@university.edu"] }

OverridesInit ==
    /\ form_rows = << >>
    /\ overrides_file = NoOverridesFile
    /\ kw_returned = 0
    /\ kw_patterns = << >>

\* a response is submitted and the form adds a row to the published sheet
FormSubmit ==
    /\ Len(form_rows) < MaxResponses
    /\ \E answer \in FormAnswers :
          form_rows' = Append(form_rows,
                          [ts |-> FormTimes[Len(form_rows) + 1]] @@ answer)
    /\ UNCHANGED <<overrides_file, kw_returned, kw_patterns, pipeVars, clVars,
                   ktVars, scVars, readerVars, anVars>>

\* sync_form_responses(TEAM_MEMBERS) on the sheet as it is
SyncFormResponses ==
    /\ LET r == sync_form_responses(TEAM_MEMBERS, form_rows, overrides_file)
       IN /\ overrides_file' = save_overrides(r.saved)
          /\ kw_returned' = r.returned
    /\ UNCHANGED <<form_rows, kw_patterns, pipeVars, clVars, ktVars, scVars,
                   readerVars, anVars>>

\* get_effective_patterns(member) for a member of the team
GetEffectivePatterns ==
    /\ \E k \in 1..Len(TEAM_MEMBERS) :
          kw_patterns' = get_effective_patterns(TEAM_MEMBERS[k], overrides_file)
    /\ UNCHANGED <<form_rows, overrides_file, kw_returned, pipeVars, clVars,
                   ktVars, scVars, readerVars, anVars>>

(***************************************************************************)
(* main.py                                                                 *)
(***************************************************************************)
\* records handed over by the adapters
Notices ==
    { [state |-> "TX", id |-> "123", title |-> "Economic Impact Study",
       description |-> "", agency |-> "", source |-> "texas_esbd"],
      [state |-> "TX", id |-> "123", title |-> "Economic Impact Study",
       description |-> "Annual gala", agency |-> "", source |-> "bidnet"],
      [state |-> "NY", id |-> "8-A", title |-> "Chairs",
       description |-> "", agency |-> "", source |-> "ny_nyscr"],
      [state |-> "NY", id |-> "8", title |-> "A-Chairs",
       description |-> "", agency |-> "", source |-> "bidnet"] }

Batches == UNION {[1..n -> Notices] : n \in 1..MaxNotices}

\* lines 57-61
SeenEntry(rfp, t) ==
    [first_seen |-> t, title |-> rfp.title, state |-> rfp.state]

\* lines 63-87; the columns status, posted_date, close_date, url and amount
\* are copies of adapter fields like source and agency, key_terms is the
\* result of extract_key_terms
StoreRow(rfp, h, t) ==
    LET c == classify_rfp(rfp)
    IN [rfp_id |-> rfp.id, hash |-> h, source |-> rfp.source,
        state |-> rfp.state, title |-> rfp.title, agency |-> rfp.agency,
        description |-> rfp.description,
        keyword_match |-> c.match,
        matched_keywords |-> Join(", ", c.keywords),
        scrape_date |-> t, scrape_timestamp |-> t]

\* variant: a notice that matches no keyword is dropped, not tagged
ProcessNotice_drop_unmatched(s, rows, rfp, t) ==
    LET h == rfp_hash(rfp)
        row == StoreRow(rfp, h, t)
    IN IF h \in DOMAIN s
       THEN [seen |-> s, new_rfps |-> rows, accepted |-> FALSE]
       ELSE [seen |-> [k \in DOMAIN s \cup {h} |->
                          IF k = h THEN SeenEntry(rfp, t) ELSE s[k]],
             new_rfps |-> IF row.keyword_match THEN Append(rows, row) ELSE rows,
             accepted |-> row.keyword_match]

\* variant: an accepted hash is not registered in the dict
ProcessNotice_not_registered(s, rows, rfp, t) ==
    LET h == rfp_hash(rfp)
    IN IF h \in DOMAIN s
       THEN [seen |-> s, new_rfps |-> rows, accepted |-> FALSE]
       ELSE [seen |-> s,
             new_rfps |-> Append(rows, StoreRow(rfp, h, t)),
             accepted |-> TRUE]

\* variant: the entry of a known hash is written again on every sighting
ProcessNotice_refresh(s, rows, rfp, t) ==
    LET h == rfp_hash(rfp)
        s2 == [k \in DOMAIN s \cup {h} |->
                 IF k = h THEN SeenEntry(rfp, t) ELSE s[k]]
    IN IF h \in DOMAIN s
       THEN [seen |-> s2, new_rfps |-> rows, accepted |-> FALSE]
       ELSE [seen |-> s2,
             new_rfps |-> Append(rows, StoreRow(rfp, h, t)),
             accepted |-> TRUE]

\* one iteration of the loop of lines 52-87 on the dict s and the list rows
ProcessNotice(s, rows, rfp, t) ==
    LET h == rfp_hash(rfp)
    IN IF h \in DOMAIN s
       THEN [seen |-> s, new_rfps |-> rows, accepted |-> FALSE]
       ELSE [seen |-> [k \in DOMAIN s \cup {h} |->
                          IF k = h THEN SeenEntry(rfp, t) ELSE s[k]],
             new_rfps |-> Append(rows, StoreRow(rfp, h, t)),
             accepted |-> TRUE]

Triple(rfp) == <<rfp.state, rfp.id, rfp.title>>

\* the first notice of the list with this hash
FirstWithHash(rfps, h) ==
    rfps[CHOOSE k \in 1..Len(rfps) :
            /\ rfp_hash(rfps[k]) = h
            /\ \A j \in 1..(k - 1) : rfp_hash(rfps[j]) # h]

Idle(p) == pc[p] = "idle"

ResetLocals(p) ==
    /\ all_rfps' = [all_rfps EXCEPT ![p] = <<>>]
    /\ seen' = [seen EXCEPT ![p] = EmptyDict]
    /\ new_rfps' = [new_rfps EXCEPT ![p] = <<>>]
    /\ now' = [now EXCEPT ![p] = 0]
    /\ idx' = [idx EXCEPT ![p] = 0]
    /\ written' = [written EXCEPT ![p] = 0]
    /\ seen0' = [seen0 EXCEPT ![p] = EmptyDict]
    /\ store0' = [store0 EXCEPT ![p] = NoFile]
    /\ rejected' = [rejected EXCEPT ![p] = {}]
    /\ held' = [held EXCEPT ![p] = EmptyDict]

\* lines 30-39: the adapters return a batch that is not empty
Scrape(p) ==
    /\ Idle(p)
    /\ \A q \in Procs : Idle(q)
    /\ \E batch \in Batches :
          /\ fetched + Len(batch) <= MaxNotices
          /\ all_rfps' = [all_rfps EXCEPT ![p] = batch]
          /\ fetched' = fetched + Len(batch)
    /\ pc' = [pc EXCEPT ![p] = "load"]
    /\ store0' = [store0 EXCEPT ![p] = parquet_file]
    /\ UNCHANGED <<clock, seen_file, parquet_file, seen,
                   new_rfps, now, idx, written, seen0, rejected, held,
                   last_batch, last_held, last_complete, harnessVars, anVars, origin>>

\* lines 30-43: nothing was scraped, main returns
ScrapeNothing(p) ==
    /\ Idle(p)
    /\ \A q \in Procs : Idle(q)
    /\ last_batch' = <<>>
    /\ last_held' = EmptyDict
    /\ last_complete' = TRUE
    /\ UNCHANGED <<clock, seen_file, parquet_file, fetched, pc,
                   all_rfps, seen, new_rfps, now, idx, written, seen0,
                   store0, rejected, held, harnessVars, anVars, origin>>

\* lines 46-50
LoadSeen(p) ==
    /\ pc[p] = "load"
    /\ seen' = [seen EXCEPT ![p] = load_seen]
    /\ seen0' = [seen0 EXCEPT ![p] = load_seen]
    /\ held' = [held EXCEPT ![p] = load_seen]
    /\ new_rfps' = [new_rfps EXCEPT ![p] = <<>>]
    /\ now' = [now EXCEPT ![p] = clock]
    /\ idx' = [idx EXCEPT ![p] = 1]
    /\ pc' = [pc EXCEPT ![p] = "loop"]
    /\ UNCHANGED <<clock, seen_file, parquet_file, fetched,
                   all_rfps, written, store0, rejected, last_batch,
                   last_held, last_complete, harnessVars, anVars, origin>>

\* lines 52-87: one notice of the batch
DedupStep(p) ==
    /\ pc[p] = "loop"
    /\ idx[p] <= Len(all_rfps[p])
    /\ LET rfp == all_rfps[p][idx[p]]
           r == ProcessNotice(seen[p], new_rfps[p], rfp, now[p])
       IN /\ seen' = [seen EXCEPT ![p] = r.seen]
          /\ new_rfps' = [new_rfps EXCEPT ![p] = r.new_rfps]
          /\ rejected' = [rejected EXCEPT ![p] =
                IF r.accepted THEN @ ELSE @ \cup {rfp_hash(rfp)}]
          /\ held' = [held EXCEPT ![p] =
                [k \in DOMAIN @ \cup DOMAIN r.seen |->
                    IF k \in DOMAIN @ THEN @[k] ELSE r.seen[k]]]
          /\ origin' = IF r.accepted
                THEN [k \in DOMAIN origin \cup {rfp_hash(rfp)} |->
                        IF k = rfp_hash(rfp) THEN Triple(rfp) ELSE origin[k]]
                ELSE origin
    /\ idx' = [idx EXCEPT ![p] = @ + 1]
    /\ UNCHANGED <<clock, seen_file, parquet_file, fetched, pc,
                   all_rfps, now, written, seen0, store0, last_batch,
                   last_held, last_complete, harnessVars, anVars>>

\* line 90, reached when the loop is over
PruneSeen(p) ==
    /\ pc[p] = "loop"
    /\ idx[p] > Len(all_rfps[p])
    /\ seen' = [seen EXCEPT ![p] = prune_seen(seen[p])]
    /\ pc' = [pc EXCEPT ![p] = "save"]
    /\ UNCHANGED <<clock, seen_file, parquet_file, fetched,
                   all_rfps, new_rfps, now, idx, written, seen0, store0,
                   rejected, held, last_batch, last_held, last_complete,
                   harnessVars, anVars, origin>>

\* line 91
SaveSeen(p) ==
    /\ pc[p] = "save"
    /\ seen_file' = seen[p]
    /\ pc' = [pc EXCEPT ![p] = "append"]
    /\ UNCHANGED <<clock, parquet_file, fetched, all_rfps,
                   seen, new_rfps, now, idx, written, seen0, store0,
                   rejected, held, last_batch, last_held, last_complete,
                   harnessVars, anVars, origin>>

\* line 92: append_rfps returns
AppendRfps(p) ==
    /\ pc[p] = "append"
    /\ Len(new_rfps[p]) = 0 \/ ~parquet_file.exists \/ parquet_file.readable
    /\ parquet_file' = append_rfps_file(parquet_file, new_rfps[p])
    /\ written' = [written EXCEPT ![p] = append_rfps_count(new_rfps[p])]
    /\ pc' = [pc EXCEPT ![p] = "done"]
    /\ UNCHANGED <<clock, seen_file, fetched, all_rfps, seen,
                   new_rfps, now, idx, seen0, store0, rejected, held,
                   last_batch, last_held, last_complete, harnessVars, anVars, origin>>

\* the run ends without completing: last_* record that
Abort(p) ==
    /\ pc' = [pc EXCEPT ![p] = "idle"]
    /\ last_batch' = <<>>
    /\ last_held' = EmptyDict
    /\ last_complete' = FALSE
    /\ ResetLocals(p)

\* line 92: pq.read_table raises on a file that cannot be read
AppendRfpsReadFails(p) ==
    /\ pc[p] = "append"
    /\ Len(new_rfps[p]) > 0
    /\ parquet_file.exists /\ ~parquet_file.readable
    /\ Abort(p)
    /\ UNCHANGED <<clock, seen_file, parquet_file, fetched,
                   harnessVars, anVars, origin>>

\* line 99: pq.write_table opens the file for writing and the write stops
\* before the footer is written; what is left is not a Parquet file
AppendRfpsTornWrite(p) ==
    /\ pc[p] = "append"
    /\ Len(new_rfps[p]) > 0
    /\ ~parquet_file.exists \/ parquet_file.readable
    /\ parquet_file' = TornFile
    /\ Abort(p)
    /\ UNCHANGED <<clock, seen_file, fetched, harnessVars, anVars, origin>>

\* the process stops between two statements of lines 46-92
Crash(p) ==
    /\ pc[p] \in {"load", "loop", "save", "append"}
    /\ Abort(p)
    /\ UNCHANGED <<clock, seen_file, parquet_file, fetched,
                   harnessVars, anVars, origin>>

\* lines 94-142: the run ends
Finish(p) ==
    /\ pc[p] = "done"
    /\ pc' = [pc EXCEPT ![p] = "idle"]
    /\ last_batch' = all_rfps[p]
    /\ last_held' = held[p]
    /\ last_complete' = TRUE
    /\ ResetLocals(p)
    /\ UNCHANGED <<clock, seen_file, parquet_file, fetched,
                   harnessVars, anVars, origin>>

\* time passes between two readings of the clock: between runs, and between
\* line 48 and the datetime.now() of prune_seen
Tick ==
    /\ \A p \in Procs : pc[p] = "idle" \/ (pc[p] = "loop" /\ idx[p] > Len(all_rfps[p]))
    /\ clock + TickDays <= MaxClock
    /\ clock' = clock + TickDays
    /\ UNCHANGED <<seen_file, parquet_file, fetched, pc,
                   all_rfps, seen, new_rfps, now, idx, written, seen0,
                   store0, rejected, held, last_batch, last_held,
                   last_complete, harnessVars, anVars, origin>>

ClassifierIdle ==
    /\ cl_rfp = [title |-> "", description |-> "", agency |-> ""]
    /\ cl_out = [match |-> FALSE, keywords |-> <<>>]
    /\ cl_pc = "off"

\* no run of main() is in progress, the seen-set file and the Store are as
\* given
PipelineAt(seen_json, file) ==
    /\ clock = 0
    /\ seen_file = seen_json
    /\ parquet_file = file
    /\ fetched = 0
    /\ pc = [p \in Procs |-> "idle"]
    /\ all_rfps = [p \in Procs |-> <<>>]
    /\ seen = [p \in Procs |-> EmptyDict]
    /\ new_rfps = [p \in Procs |-> <<>>]
    /\ now = [p \in Procs |-> 0]
    /\ idx = [p \in Procs |-> 0]
    /\ written = [p \in Procs |-> 0]
    /\ seen0 = [p \in Procs |-> EmptyDict]
    /\ store0 = [p \in Procs |-> NoFile]
    /\ rejected = [p \in Procs |-> {}]
    /\ held = [p \in Procs |-> EmptyDict]
    /\ last_batch = <<>>
    /\ last_held = EmptyDict
    /\ last_complete = FALSE
    /\ origin = EmptyDict

PipelineInit == PipelineAt(EmptyDict, NoFile)

TermsIdle ==
    /\ kt_rfps = << >>
    /\ kt_idx = 0
    /\ kt_out = << >>
    /\ kt_pc = "off"

ScrapeIdle ==
    /\ sc_outcome = EmptyDict
    /\ sc_idx = 0
    /\ sc_invoked = << >>
    /\ sc_failed = {}
    /\ docs = EmptyDict
    /\ outbox = {}

Init ==
    /\ PipelineInit
    /\ ClassifierIdle
    /\ TermsIdle
    /\ ScrapeIdle
    /\ OverridesInit
    /\ AnalyzerInit

Next ==
    \/ \E p \in SeqProcs : Scrape(p)
    \/ \E p \in SeqProcs : ScrapeNothing(p)
    \/ \E p \in SeqProcs : LoadSeen(p)
    \/ \E p \in SeqProcs : DedupStep(p)
    \/ \E p \in SeqProcs : PruneSeen(p)
    \/ \E p \in SeqProcs : SaveSeen(p)
    \/ \E p \in SeqProcs : AppendRfps(p)
    \/ \E p \in SeqProcs : AppendRfpsReadFails(p)
    \/ \E p \in SeqProcs : AppendRfpsTornWrite(p)
    \/ \E p \in SeqProcs : Crash(p)
    \/ \E p \in SeqProcs : Finish(p)
    \/ Tick

Spec == Init /\ [][Next]_vars

(***************************************************************************)
(* The classifier on its own: classify_rfp applied to one record.          *)
(***************************************************************************)
ClassifyTitles ==
    { "", "Economic Impact Study", "OPIOID Policy", "Property Tax Study",
      "Exposure notice", "Office chairs and property",
      "Transportation planning and transit study for regional economic development",
      "RFP for catering services supporting an economic development forum" }
ClassifyDescriptions ==
    { "", "tax study for the cdfi", "Annual Gala", "regional economic",
      "opioid and tax study" }
ClassifyAgencies == { "", "CDFI Fund", "Expo Authority" }

ClassifyInputs ==
    [title : ClassifyTitles, description : ClassifyDescriptions,
     agency : ClassifyAgencies]

ClassifyInit ==
    /\ PipelineInit
    /\ TermsIdle
    /\ ScrapeIdle
    /\ OverridesInit
    /\ AnalyzerInit
    /\ cl_rfp \in ClassifyInputs
    /\ cl_out = [match |-> FALSE, keywords |-> <<>>]
    /\ cl_pc = "call"

ClassifyCall ==
    /\ cl_pc = "call"
    /\ cl_out' = classify_rfp(cl_rfp)
    /\ cl_pc' = "done"
    /\ UNCHANGED <<cl_rfp, pipeVars, ktVars, scVars, readerVars, anVars, kwVars>>

ClassifyNext == ClassifyCall

SpecClassify == ClassifyInit /\ [][ClassifyNext]_vars

(***************************************************************************)
(* The body of the loop of main() on its own: classify_rfp and             *)
(* extract_key_terms applied to each record of a batch of two.             *)
(***************************************************************************)
KtTexts ==
    { [title |-> "", description |-> "", agency |-> ""],
      [title |-> None, description |-> "", agency |-> "General Services"],
      [title |-> "Economic Impact Study", description |-> None,
       agency |-> "CDFI Fund"],
      [title |-> "Economic Impact Study", description |-> "",
       agency |-> None],
      [title |-> "Bridge"],
      [description |-> "", agency |-> ""],
      [title |-> "RFP for services", description |-> "",
       agency |-> "Department of Administration"],
      [title |-> "2024 IT audit", description |-> "Water/Sewer: Phase-2",
       agency |-> ""],
      [title |-> "Bridge Repair", description |-> " bridge repair ",
       agency |-> ""],
      [title |-> "Economic Impact Study", description |-> "",
       agency |-> ""],
      [title |-> "Bridge repair and bridge repair plan",
       description |-> "opioid policy tax_study", agency |-> ""],
      [title |-> "Water water water treatment", description |-> "",
       agency |-> ""],
      [title |-> "Levee dam pier dock quay weir",
       description |-> "lock pump pipe duct vent roof", agency |-> ""] }

KtMetas ==
    { [state |-> "TX", id |-> "123", source |-> "texas_esbd"],
      [state |-> None, id |-> ""] }

KtRecords == {t @@ m : t \in KtTexts, m \in KtMetas}

KtBatches == {<< a, b >> : a \in KtRecords, b \in KtRecords}

TermsInit ==
    /\ PipelineInit
    /\ ClassifierIdle
    /\ ScrapeIdle
    /\ OverridesInit
    /\ AnalyzerInit
    /\ kt_rfps \in KtBatches
    /\ kt_idx = 1
    /\ kt_out = << >>
    /\ kt_pc = "loop"

\* lines 63-67 and 83-84: the classification and the key terms of one record
LoopBody(rfp) ==
    [match |-> classify_rfp(rfp).match,
     keywords |-> classify_rfp(rfp).keywords,
     key_terms |-> extract_key_terms(rfp)]

KtStep ==
    /\ kt_pc = "loop"
    /\ kt_idx <= Len(kt_rfps)
    /\ ~classify_rfp_raises(kt_rfps[kt_idx])
    /\ kt_out' = Append(kt_out, LoopBody(kt_rfps[kt_idx]))
    /\ kt_idx' = kt_idx + 1
    /\ UNCHANGED <<kt_rfps, kt_pc, pipeVars, clVars, scVars, readerVars,
                   anVars, kwVars>>

\* classify_rfp raises; nothing in main() catches it
KtRaise ==
    /\ kt_pc = "loop"
    /\ kt_idx <= Len(kt_rfps)
    /\ classify_rfp_raises(kt_rfps[kt_idx])
    /\ kt_pc' = "raised"
    /\ UNCHANGED <<kt_rfps, kt_idx, kt_out, pipeVars, clVars, scVars, readerVars,
                   anVars, kwVars>>

KtEnd ==
    /\ kt_pc = "loop"
    /\ kt_idx > Len(kt_rfps)
    /\ kt_pc' = "done"
    /\ UNCHANGED <<kt_rfps, kt_idx, kt_out, pipeVars, clVars, scVars, readerVars,
                   anVars, kwVars>>

TermsNext == KtStep \/ KtRaise \/ KtEnd

SpecTerms == TermsInit /\ [][TermsNext]_vars

(***************************************************************************)
(* The scrape loop of main() adapter by adapter, followed by the rest of   *)
(* the run.                                                                *)
(***************************************************************************)
\* part of ALL_SOURCES, in the order of the source list
ALL_SOURCES == << "bidnet", "texas_esbd", "ny_nyscr" >>

\* the call of an adapter raises an exception
Raises == [raises |-> TRUE, results |-> << >>]

\* the call of an adapter returns a list
Returns(results) == [raises |-> FALSE, results |-> results]

\* what a call of the adapter can do: raise, or return a list of its notices
Outcomes(adapter) ==
    LET own == {n \in Notices : n.source = adapter}
    IN {Raises} \cup {Returns(<< >>)} \cup {Returns(<< n >>) : n \in own}
          \cup {Returns(<< pair[1], pair[2] >>) :
                    pair \in {q \in own \X own : q[1] # q[2]}}

\* number of notices the adapters return in a run of these outcomes
Yield(outcome) ==
    Len(outcome["bidnet"].results) + Len(outcome["texas_esbd"].results)
        + Len(outcome["ny_nyscr"].results)

\* variant: the except clause encloses the loop, so that a failure ends it
\* with nothing scraped
TryScrape_batch_lost(all, outcome) ==
    IF outcome.raises THEN [all_rfps |-> << >>, failed |-> TRUE]
    ELSE [all_rfps |-> all \o outcome.results, failed |-> FALSE]

\* lines 33-37: one adapter is called inside try/except
TryScrape(all, outcome) ==
    IF outcome.raises THEN [all_rfps |-> all, failed |-> TRUE]
    ELSE [all_rfps |-> all \o outcome.results, failed |-> FALSE]

\* lines 30-31: a run starts; the outcomes of the adapter calls are fixed by
\* the portals
ScStart(p) ==
    /\ Idle(p)
    /\ \E outcome \in [Range(ALL_SOURCES) -> UNION {Outcomes(a) : a \in Range(ALL_SOURCES)}] :
          /\ \A a \in Range(ALL_SOURCES) : outcome[a] \in Outcomes(a)
          /\ fetched + Yield(outcome) <= MaxNotices
          /\ sc_outcome' = outcome
          /\ fetched' = fetched + Yield(outcome)
    /\ sc_idx' = 1
    /\ sc_invoked' = << >>
    /\ sc_failed' = {}
    /\ all_rfps' = [all_rfps EXCEPT ![p] = << >>]
    /\ pc' = [pc EXCEPT ![p] = "scrape"]
    /\ store0' = [store0 EXCEPT ![p] = parquet_file]
    /\ UNCHANGED <<clock, seen_file, parquet_file, seen, new_rfps, now, idx,
                   written, seen0, rejected, held, last_batch, last_held,
                   last_complete, origin, clVars, ktVars, readerVars, anVars, kwVars>>

\* lines 32-37: one iteration of the loop over ALL_SOURCES
ScCall(p) ==
    /\ pc[p] = "scrape"
    /\ sc_idx <= Len(ALL_SOURCES)
    /\ LET adapter == ALL_SOURCES[sc_idx]
           r == TryScrape(all_rfps[p], sc_outcome[adapter])
       IN /\ all_rfps' = [all_rfps EXCEPT ![p] = r.all_rfps]
          /\ sc_failed' = IF r.failed THEN sc_failed \cup {adapter} ELSE sc_failed
          /\ sc_invoked' = Append(sc_invoked, adapter)
    /\ sc_idx' = sc_idx + 1
    /\ UNCHANGED <<clock, seen_file, parquet_file, fetched, pc, seen, new_rfps,
                   now, idx, written, seen0, store0, rejected, held, last_batch,
                   last_held, last_complete, origin, sc_outcome, clVars, ktVars,
                   readerVars, anVars, kwVars>>

\* lines 39-43: nothing was scraped, main returns
ScNothing(p) ==
    /\ pc[p] = "scrape"
    /\ sc_idx > Len(ALL_SOURCES)
    /\ all_rfps[p] = << >>
    /\ pc' = [pc EXCEPT ![p] = "idle"]
    /\ last_batch' = << >>
    /\ last_held' = EmptyDict
    /\ last_complete' = TRUE
    /\ UNCHANGED <<clock, seen_file, parquet_file, fetched, all_rfps, seen,
                   new_rfps, now, idx, written, seen0, store0, rejected, held,
                   origin, harnessVars, anVars>>

\* lines 39-45: the batch is not empty, the run goes on
ScDone(p) ==
    /\ pc[p] = "scrape"
    /\ sc_idx > Len(ALL_SOURCES)
    /\ all_rfps[p] # << >>
    /\ pc' = [pc EXCEPT ![p] = "load"]
    /\ UNCHANGED <<clock, seen_file, parquet_file, fetched, all_rfps, seen,
                   new_rfps, now, idx, written, seen0, store0, rejected, held,
                   last_batch, last_held, last_complete, origin, harnessVars,
                   anVars>>

ScrapeNext ==
    \/ \E p \in SeqProcs : ScStart(p)
    \/ \E p \in SeqProcs : ScCall(p)
    \/ \E p \in SeqProcs : ScNothing(p)
    \/ \E p \in SeqProcs : ScDone(p)
    \/ \E p \in SeqProcs : LoadSeen(p)
    \/ \E p \in SeqProcs : DedupStep(p)
    \/ \E p \in SeqProcs : PruneSeen(p)
    \/ \E p \in SeqProcs : SaveSeen(p)
    \/ \E p \in SeqProcs : AppendRfps(p)
    \/ \E p \in SeqProcs : Finish(p)

SpecScrape == Init /\ [][ScrapeNext]_vars

(***************************************************************************)
(* The keyword overlay on its own: responses arrive on the form, the sheet *)
(* is synced and the effective patterns of a member are read.              *)
(***************************************************************************)
OverridesNext ==
    \/ FormSubmit
    \/ SyncFormResponses
    \/ GetEffectivePatterns

SpecOverrides == Init /\ [][OverridesNext]_vars

(***************************************************************************)
(* Two runs of main() on the same data directory (cron and a manual run):  *)
(* nothing in main.py or storage.py takes a lock, so the statements of the *)
(* two runs interleave.                                                    *)
(***************************************************************************)
\* lines 30-39 of a run that starts whatever the other run is doing
ScrapeOverlap(p) ==
    /\ Idle(p)
    /\ \E batch \in Batches :
          /\ fetched + Len(batch) <= MaxNotices
          /\ all_rfps' = [all_rfps EXCEPT ![p] = batch]
          /\ fetched' = fetched + Len(batch)
    /\ pc' = [pc EXCEPT ![p] = "load"]
    /\ store0' = [store0 EXCEPT ![p] = parquet_file]
    /\ UNCHANGED <<clock, seen_file, parquet_file, seen,
                   new_rfps, now, idx, written, seen0, rejected, held,
                   last_batch, last_held, last_complete, harnessVars, anVars, origin>>

OverlapNext ==
    \/ \E p \in Procs : ScrapeOverlap(p)
    \/ \E p \in Procs : LoadSeen(p)
    \/ \E p \in Procs : DedupStep(p)
    \/ \E p \in Procs : PruneSeen(p)
    \/ \E p \in Procs : SaveSeen(p)
    \/ \E p \in Procs : AppendRfps(p)
    \/ \E p \in Procs : Finish(p)

SpecOverlap == Init /\ [][OverlapNext]_vars

(***************************************************************************)
(* The corpus analyzer on its own: runs of run_analysis on a Store as runs  *)
(* of main() leave it.                                                     *)
(***************************************************************************)
\* the Store after the rows of these notices were appended
StoreOf(notices) ==
    append_rfps_file(NoFile,
        [k \in 1..Len(notices) |->
            StoreRow(notices[k], rfp_hash(notices[k]), 0)])

\* the seen-set file after these notices were accepted
SeenOf(notices) ==
    [h \in {rfp_hash(notices[k]) : k \in 1..Len(notices)} |->
        SeenEntry(FirstWithHash(notices, h), 0)]

OneNotice ==
    << [state |-> "TX", id |-> "123", title |-> "Economic Impact Study",
        description |-> "", agency |-> "", source |-> "texas_esbd"] >>

ThreeNotices ==
    OneNotice \o
    << [state |-> "NY", id |-> "8-A", title |-> "Chairs",
        description |-> "", agency |-> "", source |-> "ny_nyscr"],
       [state |-> "NY", id |-> "8", title |-> "A-Chairs",
        description |-> "", agency |-> "", source |-> "bidnet"] >>

\* the seen-set file and the Store as runs of main() leave them: nothing
\* yet, a torn Store write, one row, three rows
AnalyzerDisks ==
    { [seen |-> EmptyDict, store |-> NoFile],
      [seen |-> SeenOf(OneNotice), store |-> TornFile],
      [seen |-> SeenOf(OneNotice), store |-> StoreOf(OneNotice)],
      [seen |-> SeenOf(ThreeNotices), store |-> StoreOf(ThreeNotices)] }

AnalyzerSpecInit ==
    /\ \E disk \in AnalyzerDisks : PipelineAt(disk.seen, disk.store)
    /\ ClassifierIdle
    /\ TermsIdle
    /\ ScrapeIdle
    /\ OverridesInit
    /\ AnalyzerInit

SpecAnalyzer == AnalyzerSpecInit /\ [][AnalyzerNext]_vars

(***************************************************************************)
(* The readers of the data files: the analyzer, the dashboard generator    *)
(* and the email digests, run one after the other in any order on files    *)
(* that nothing else touches.                                              *)
(***************************************************************************)
ReadersNext ==
    \/ AnStart
    \/ AnSkip
    \/ AnLoadRfpsRaises
    \/ AnLoad
    \/ AnBaseline
    \/ AnDiff
    \/ GenerateSite
    \/ SendDailyEmail
    \/ SendTeamDigest

SpecReaders == AnalyzerSpecInit /\ [][ReadersNext]_vars

(***************************************************************************)
(* Properties.                                                             *)
(***************************************************************************)
IsPrefix(a, b) == Len(a) <= Len(b) /\ SubSeq(b, 1, Len(a)) = a

Hashes(rows) == {rows[k].hash : k \in 1..Len(rows)}

\* rows the file holds beyond those it held when run p started
Gained(p) ==
    SubSeq(parquet_file.rows, Len(store0[p].rows) + 1, Len(parquet_file.rows))

\* no entry the latest completed run held is older than the TTL
NoTTLElapsed ==
    \A h \in DOMAIN last_held : clock - last_held[h].first_seen <= SEEN_TTL_DAYS

\* run p has made its writes and its batch is the batch of the completed
\* run before it
IsReplay(p) ==
    /\ pc[p] = "done"
    /\ last_complete
    /\ all_rfps[p] = last_batch
    /\ NoTTLElapsed

\* C1: a run that replays the batch of the completed run before it, with no
\* seen-set entry older than the TTL, accepts no notice and appends no row.
C1_ReplayAcceptsNothing ==
    \A p \in Procs :
        IsReplay(p) =>
            /\ new_rfps[p] = <<>>
            /\ written[p] = 0
            /\ parquet_file = store0[p]

C1_Witness ==
    /\ IsReplay(1)
    /\ Len(all_rfps[1]) > 0
    /\ Hashes(store0[1].rows) = {rfp_hash(all_rfps[1][k]) : k \in 1..Len(all_rfps[1])}

\* C2 (as claimed): when no run is in progress, every hash of the seen-set
\* file has a row in the Store, whatever run was interrupted before.
C2_NoSeenHashWithoutRow ==
    ((\A p \in Procs : pc[p] = "idle") /\ (parquet_file.readable \/ ~parquet_file.exists))
        => DOMAIN seen_file \subseteq Hashes(parquet_file.rows)

\* C3: when a run has made its writes, the Store has gained exactly one row
\* for each hash of the batch that the loaded seen-set did not hold, and
\* append_rfps returned the number of accepted notices.
C3_OneRowPerNewHash ==
    \A p \in Procs :
        pc[p] = "done" =>
            LET batchHashes == {rfp_hash(all_rfps[p][k]) : k \in 1..Len(all_rfps[p])}
                newHashes == batchHashes \ DOMAIN seen0[p]
            IN /\ IsPrefix(store0[p].rows, parquet_file.rows)
               /\ Hashes(Gained(p)) = newHashes
               /\ Len(Gained(p)) = Cardinality(newHashes)
               /\ written[p] = Len(Gained(p))
               /\ written[p] = Len(new_rfps[p])

C3_Witness ==
    /\ pc[1] = "done"
    /\ rejected[1] # {}
    /\ \E k \in 1..Len(Gained(1)) :
          /\ ~Gained(1)[k].keyword_match
          /\ Gained(1)[k].matched_keywords = ""
    /\ \E k \in 1..Len(Gained(1)) : Gained(1)[k].keyword_match

\* C4: a call of append_rfps that returns keeps every row of the Store in
\* place, puts the new rows behind them, and leaves the file as it is when
\* the row list is empty.
C4_AppendOnly ==
    [][\A p \in Procs :
          (pc[p] = "append" /\ pc'[p] = "done") =>
              /\ IsPrefix(parquet_file.rows, parquet_file'.rows)
              /\ parquet_file'.rows = parquet_file.rows \o new_rfps[p]
              /\ (new_rfps[p] = <<>> => parquet_file' = parquet_file)]_vars

C4_Witness ==
    /\ pc[1] = "done"
    /\ Len(store0[1].rows) > 0
    /\ Len(new_rfps[1]) > 0
    /\ parquet_file.rows = store0[1].rows \o new_rfps[1]

\* C5 (as claimed): a Store write that does not run to its end leaves the
\* rows of earlier runs in the file, readable.
C5_FailedWriteKeepsRows ==
    [][\A p \in Procs :
          (pc[p] = "append" /\ pc'[p] = "idle" /\ parquet_file.readable) =>
              /\ parquet_file'.readable
              /\ IsPrefix(parquet_file.rows, parquet_file'.rows)]_vars

\* some entry of the dict s was registered by a notice with the triple of rfp
TripleInSeen(s, rfp) == \E h \in DOMAIN s : origin[h] = Triple(rfp)

\* C6 (as claimed): a notice is rejected exactly when an entry registered
\* for its (state, id, title) is in the seen-set; an accepted notice gets an
\* entry with first_seen equal to the timestamp of the run.
C6_GateDecidesOnTriple ==
    [][\A p \in Procs :
          (pc[p] = "loop" /\ idx'[p] = idx[p] + 1) =>
              LET rfp == all_rfps[p][idx[p]]
                  accepted == Len(new_rfps'[p]) = Len(new_rfps[p]) + 1
              IN /\ accepted <=> ~TripleInSeen(seen[p], rfp)
                 /\ accepted =>
                      /\ rfp_hash(rfp) \in DOMAIN seen'[p]
                      /\ seen'[p][rfp_hash(rfp)].first_seen = now[p]]_vars

\* some exclusion fragment occurs in the text
FragmentOccurs(text) ==
    \E f \in Range(EXCLUDE_FRAGMENTS) : Occurs(text, f)

\* some vocabulary phrase occurs in the text
KeywordOccurs(text) ==
    \E kw \in Range(KEYWORDS) : Occurs(text, kw)

\* C7: when an exclusion fragment occurs anywhere in the text, classify_rfp
\* returns (False, []), also when vocabulary phrases occur in the text.
C7_ExclusionWins ==
    (cl_pc = "done" /\ FragmentOccurs(ClassifyText(cl_rfp)))
        => cl_out = [match |-> FALSE, keywords |-> <<>>]

C7_Witness ==
    /\ cl_pc = "done"
    /\ FragmentOccurs(ClassifyText(cl_rfp))
    /\ ~MatchAt(ClassifyText(cl_rfp), 1, "expo")
    /\ KeywordOccurs(ClassifyText(cl_rfp))
    /\ cl_out = [match |-> FALSE, keywords |-> <<>>]

\* C8 (as claimed): when no exclusion fragment occurs in the text, every
\* vocabulary phrase that occurs in the text is among the matched keywords.
C8_EveryOccurringPhraseReported ==
    (cl_pc = "done" /\ ~FragmentOccurs(ClassifyText(cl_rfp)))
        => \A kw \in Range(KEYWORDS) :
              Occurs(ClassifyText(cl_rfp), kw)
                  => Lower(kw) \in Range(cl_out.keywords)

\* position of the first occurrence of kw in text (0 when it does not occur)
FirstOccurrence(text, kw) ==
    IF Occurs(text, kw)
    THEN CHOOSE pos \in 1..Len(text) :
            /\ MatchAt(text, pos, kw)
            /\ \A q \in 1..(pos - 1) : ~MatchAt(text, q, kw)
    ELSE 0

\* the matched keywords are lowercase, without duplicates, and the boolean
\* result is true exactly when the list is non-empty
KeywordsWellFormed(out) ==
    /\ \A k \in 1..Len(out.keywords) : Lower(out.keywords[k]) = out.keywords[k]
    /\ \A i, j \in 1..Len(out.keywords) :
          i # j => out.keywords[i] # out.keywords[j]
    /\ out.match <=> out.keywords # <<>>

\* C11 (as claimed): the matched keywords returned by classify_rfp are
\* lowercase, without duplicates and ordered by the position of each
\* keyword's first occurrence in the text, and the boolean result is true
\* exactly when the list is non-empty.
C11_KeywordsOrderedByFirstOccurrence ==
    cl_pc = "done" =>
        /\ KeywordsWellFormed(cl_out)
        /\ \A i, j \in 1..Len(cl_out.keywords) :
              i < j => FirstOccurrence(ClassifyText(cl_rfp), cl_out.keywords[i])
                         <= FirstOccurrence(ClassifyText(cl_rfp), cl_out.keywords[j])

\* the parts of C11 that hold of classify_rfp: lowercase, no duplicates,
\* boolean true exactly when the list is non-empty
C11_WellFormedPart == cl_pc = "done" => KeywordsWellFormed(cl_out)

\* the Store part of C11: a row has keyword_match true exactly when its
\* matched_keywords string is non-empty
C11_RowsConsistent ==
    \A k \in 1..Len(parquet_file.rows) :
        parquet_file.rows[k].keyword_match
            <=> parquet_file.rows[k].matched_keywords # ""

\* C12: extract_key_terms returns at most MAX_KEY_TERMS terms, and no term
\* twice.
C12_AtMostTenDistinctTerms ==
    \A k \in 1..Len(kt_out) :
        /\ Len(kt_out[k].key_terms) <= 10
        /\ \A i, j \in 1..Len(kt_out[k].key_terms) :
              i # j => kt_out[k].key_terms[i] # kt_out[k].key_terms[j]

C12_Witness ==
    \E k \in 1..Len(kt_out) :
        /\ Len(kt_out[k].key_terms) = 10
        /\ Len(ScoredTerms(tokenize(KeyTermsText(kt_rfps[k])))) > 10

\* a single-word term
IsUnigram(term) == ~Contains(term, " ")

\* C13: in the result of one extract_key_terms call no single-word term is
\* a substring of a two-word term of the same result.
C13_NoUnigramInsideBigram ==
    \A k \in 1..Len(kt_out) :
        \A u, b \in Range(kt_out[k].key_terms) :
            (IsUnigram(u) /\ ~IsUnigram(b)) => ~Contains(b, u)

\* a call that returned two-word terms although a word of the text is
\* more frequent than the score of a returned term
C13_Witness ==
    \E k \in 1..Len(kt_out) :
        LET tokens == tokenize(KeyTermsText(kt_rfps[k]))
        IN \E b \in Range(kt_out[k].key_terms), u \in Range(tokens) :
              /\ ~IsUnigram(b)
              /\ Contains(b, u)
              /\ Count(tokens, u) > 2 * Count(bigrams(tokens), b)
              /\ u \notin Range(kt_out[k].key_terms)

\* the two records agree on title, description and agency
SameText(r1, r2) ==
    \A key \in {"title", "description", "agency"} :
        /\ key \in DOMAIN r1 <=> key \in DOMAIN r2
        /\ key \in DOMAIN r1 => r1[key] = r2[key]

\* the score of a term in a text of these tokens: twice the number of times
\* a two-word term is in the text, once the number of times a word is
TermScore(tokens, term) ==
    IF IsUnigram(term) THEN Count(tokens, term)
    ELSE 2 * Count(bigrams(tokens), term)

\* C14: two records that agree on title, description and agency get the
\* same classification and the same key terms, whatever their other fields
\* and whatever was processed before; key terms are in descending order of
\* score (bigram frequency x 2, unigram frequency x 1), ties alphabetical.
C14_DeterministicAndOrdered ==
    /\ \A i, j \in 1..Len(kt_out) :
          SameText(kt_rfps[i], kt_rfps[j]) => kt_out[i] = kt_out[j]
    /\ \A k \in 1..Len(kt_out) :
          LET tokens == tokenize(KeyTermsText(kt_rfps[k]))
              terms == kt_out[k].key_terms
          IN \A a, b \in 1..Len(terms) :
                a < b =>
                    \/ TermScore(tokens, terms[a]) > TermScore(tokens, terms[b])
                    \/ /\ TermScore(tokens, terms[a]) = TermScore(tokens, terms[b])
                       /\ StrLess(terms[a], terms[b])

\* two records with the same text and different other fields were both
\* processed, and their key terms have both a tie and a difference of score
C14_Witness ==
    /\ kt_pc = "done"
    /\ Len(kt_out) = 2
    /\ kt_rfps[1] # kt_rfps[2]
    /\ SameText(kt_rfps[1], kt_rfps[2])
    /\ kt_out[1].match
    /\ LET tokens == tokenize(KeyTermsText(kt_rfps[2]))
       IN \E ta, tb, tc \in Range(kt_out[2].key_terms) :
             /\ TermScore(tokens, ta) > TermScore(tokens, tb)
             /\ TermScore(tokens, tb) = TermScore(tokens, tc)
             /\ tb # tc

\* some of title, description, agency, state, id is absent, empty or null
HasMissingField(rfp) ==
    \E key \in {"title", "description", "agency", "state", "id"} :
        key \notin DOMAIN rfp \/ rfp[key] = None \/ rfp[key] = ""

\* title, description and agency are all absent, empty or null
NoText(rfp) ==
    \A key \in {"title", "description", "agency"} :
        key \notin DOMAIN rfp \/ rfp[key] = None \/ rfp[key] = ""

\* C15 (as claimed): no record with an absent, empty or null field makes
\* classification or key-term extraction raise, a record with no text gives
\* (False, []) and [], and the loop processes every record of the batch.
C15_MissingFieldsNeverRaise ==
    /\ kt_pc = "raised" => ~HasMissingField(kt_rfps[kt_idx])
    /\ \A k \in 1..Len(kt_out) :
          NoText(kt_rfps[k]) =>
              kt_out[k] = [match |-> FALSE, keywords |-> << >>,
                           key_terms |-> << >>]
    /\ kt_pc = "done" => Len(kt_out) = Len(kt_rfps)

\* the part of C15 that holds: absent and empty fields do not raise, and a
\* record with no text and no null field gives (False, []) and []
C15_AbsentOrEmptyPart ==
    /\ kt_pc = "raised" =>
          \E key \in {"title", "description", "agency"} :
              get(kt_rfps[kt_idx], key, "") = None
    /\ \A k \in 1..Len(kt_out) :
          NoText(kt_rfps[k]) =>
              kt_out[k] = [match |-> FALSE, keywords |-> << >>,
                           key_terms |-> << >>]

\* the latest run of the analyzer went through detect_new_terms
RunCompleted == an_pc = "idle" /\ DOMAIN an_report # {}

\* ... and found previous top terms
NonBaselineRun == RunCompleted /\ "baseline" \notin DOMAIN an_report

\* the entries of a section of the report (none when it is not emitted)
Reported(name) == IF name \in DOMAIN an_report THEN an_report[name] ELSE {}

\* the terms listed in the rising section
RisingReported ==
    IF "rising" \in DOMAIN an_report THEN Range(an_report["rising"].shown)
    ELSE {}

CurrentTop == Snapshot(an_in, an_clock).top_tfidf
PreviousTop == get(an_previous, "top_tfidf", << >>)
CurrentGaps == Keys(Snapshot(an_in, an_clock).gap_terms)
PreviousGaps == Keys(get(an_previous, "gap_terms", << >>))
CurrentRake == Range(Snapshot(an_in, an_clock).rake_phrases)
PreviousRake == Range(get(an_previous, "rake_phrases", << >>))

\* C16 (as claimed): when the snapshot file is absent, unreadable or not
\* valid JSON the run does not fail: it goes on with no previous snapshot,
\* reports the baseline and nothing else, and writes its snapshot; a run
\* that finds a snapshot file takes its content as the previous snapshot.
C16_MissingSnapshotIsBaseline ==
    [][/\ (an_pc = "load" /\ top_terms_file.status # "json")
            => (an_pc' = "diff" /\ an_previous' = EmptyDict)
       /\ (an_pc = "diff" /\ an_file0.status # "json"
              /\ top_terms_file' # GarbledSnapshotFile)
            => /\ an_pc' = "idle"
               /\ an_report' = BaselineReport
               /\ top_terms_file' =
                      [status |-> "json", content |-> Snapshot(an_in, an_clock)]
       /\ (an_pc = "load" /\ top_terms_file.status = "json")
            => an_previous' = top_terms_file.content]_vars

\* the part of C16 that holds: the same, for a file that is absent, cannot
\* be opened, or is text that does not parse
C16_CaughtPart ==
    [][/\ (an_pc = "load"
              /\ top_terms_file.status \in {"absent", "unreadable", "garbled"})
            => (an_pc' = "diff" /\ an_previous' = EmptyDict)
       /\ (an_pc = "diff" /\ an_file0.status # "json"
              /\ top_terms_file' # GarbledSnapshotFile)
            => /\ an_pc' = "idle"
               /\ an_report' = BaselineReport
               /\ top_terms_file' =
                      [status |-> "json", content |-> Snapshot(an_in, an_clock)]
       /\ (an_pc = "load" /\ top_terms_file.status = "json")
            => an_previous' = top_terms_file.content]_vars

\* C17: a run reads the snapshot file before it writes it, a run that goes
\* through the diff step writes the file exactly once, and the previous
\* snapshot it reads from the file is the one saved by the latest earlier
\* run that saved.
C17_ReadBeforeSingleWrite ==
    [][/\ (an_pc = "load" /\ an_pc' = "diff")
            => /\ an_writes = 0
               /\ top_terms_file' = top_terms_file
               /\ top_terms_file.status = "json" => an_previous' = an_latest
       /\ top_terms_file' # top_terms_file => an_pc \in {"diff", "idle"}
       /\ (an_pc = "diff" /\ DOMAIN an_report' # {})
            => /\ an_writes' = 1
               /\ top_terms_file'.status = "json"
               /\ top_terms_file'.content = Snapshot(an_in, an_clock)]_vars

\* the third run has diffed against the snapshot of the second
C17_Witness ==
    /\ NonBaselineRun
    /\ an_clock = 3
    /\ an_writes = 1
    /\ an_previous.timestamp = 2
    /\ an_previous.top_tfidf # Snapshot(an_in, an_clock).top_tfidf
    /\ top_terms_file.status = "json"
    /\ top_terms_file.content.timestamp = 3

\* C18: the new terms are the current top terms minus the previous ones,
\* the dropped terms are the previous minus the current, the two sets are
\* disjoint and a term of both snapshots is in neither.
C18_NewAndDroppedAreDifferences ==
    NonBaselineRun =>
        /\ Reported("new_terms") = Keys(CurrentTop) \ Keys(PreviousTop)
        /\ Reported("dropped_terms") = Keys(PreviousTop) \ Keys(CurrentTop)
        /\ Reported("new_terms") \cap Reported("dropped_terms") = {}
        /\ \A t \in Keys(CurrentTop) \cap Keys(PreviousTop) :
              t \notin Reported("new_terms") \cup Reported("dropped_terms")

C18_Witness ==
    /\ NonBaselineRun
    /\ Reported("new_terms") # {}
    /\ Reported("dropped_terms") # {}
    /\ Keys(CurrentTop) \cap Keys(PreviousTop) # {}

\* the score of the term rose by more than 10% of its positive previous
\* score
RoseOverTenPercent(t) ==
    /\ Value(PreviousTop, t) > 0
    /\ 10 * (Value(CurrentTop, t) - Value(PreviousTop, t)) > Value(PreviousTop, t)

\* the terms of both snapshots that rose by more than 10%
AllRising == {t \in Keys(CurrentTop) \cap Keys(PreviousTop) : RoseOverTenPercent(t)}

\* C19 (as claimed): in a non-baseline run every term of both top-term sets
\* whose score rose by more than 10% is in the rising section, and no term
\* whose score rose by 10% or less is.
C19_EveryRisingTermReported ==
    NonBaselineRun => RisingReported = AllRising

\* position of the term in the current top terms
PositionInTop(t) == CHOOSE k \in 1..Len(CurrentTop) : CurrentTop[k][1] = t

\* u is listed before t: its relative rise is larger, or equal and u is
\* earlier in the current top terms
ListedBefore(u, t) ==
    LET du == (Value(CurrentTop, u) - Value(PreviousTop, u)) * Value(PreviousTop, t)
        dt == (Value(CurrentTop, t) - Value(PreviousTop, t)) * Value(PreviousTop, u)
    IN du > dt \/ (du = dt /\ PositionInTop(u) < PositionInTop(t))

\* C19 (amended): in a non-baseline run the rising section lists the terms
\* of both top-term sets whose score rose by more than 10%, up to the 15
\* with the largest relative rise, and gives the number of all of them; no
\* term whose score rose by 10% or less is listed.
C19_LargestFifteenRisingReported ==
    NonBaselineRun =>
        /\ RisingReported =
              {t \in AllRising :
                  Cardinality({u \in AllRising : ListedBefore(u, t)}) < 15}
        /\ AllRising # {} => an_report["rising"].count = Cardinality(AllRising)
        /\ AllRising = {} => "rising" \notin DOMAIN an_report

\* sixteen terms rose by more than 10% and one by exactly 10%
C19_Witness ==
    /\ NonBaselineRun
    /\ Cardinality(AllRising) = 16
    /\ Cardinality(RisingReported) = 15
    /\ \E t \in Keys(CurrentTop) \cap Keys(PreviousTop) :
          /\ 10 * (Value(CurrentTop, t) - Value(PreviousTop, t)) = Value(PreviousTop, t)
          /\ t \notin RisingReported

\* C20 (as claimed): in a non-baseline run the report gives, for the gap
\* terms and for the RAKE phrases, the entries that are new (current minus
\* previous) and the entries that were dropped (previous minus current).
C20_GapAndRakeNewAndDroppedReported ==
    NonBaselineRun =>
        /\ Reported("new_gaps") = CurrentGaps \ PreviousGaps
        /\ Reported("dropped_gaps") = PreviousGaps \ CurrentGaps
        /\ Reported("new_rake") = CurrentRake \ PreviousRake
        /\ Reported("dropped_rake") = PreviousRake \ CurrentRake

\* C20 (amended): in a non-baseline run the report gives, for the gap
\* terms and for the RAKE phrases, the entries that are new (current minus
\* previous); it has no section for the entries that were dropped.
C20_GapAndRakeNewReported ==
    NonBaselineRun =>
        /\ Reported("new_gaps") = CurrentGaps \ PreviousGaps
        /\ Reported("new_rake") = CurrentRake \ PreviousRake
        /\ DOMAIN an_report \subseteq
              {"new_terms", "no_new_terms", "dropped_terms", "rising",
               "new_gaps", "new_rake"}

\* gap terms and RAKE phrases were both gained and lost
C20_Witness ==
    /\ NonBaselineRun
    /\ Reported("new_gaps") # {}
    /\ Reported("new_rake") # {}
    /\ PreviousGaps \ CurrentGaps # {}
    /\ PreviousRake \ CurrentRake # {}
    /\ CurrentGaps \cap PreviousGaps # {}

\* the TF-IDF model of the latest run could not be fit
FitFailed == "tfidf_failed" \in DOMAIN an_lines

\* what C21 says of a step of a run whose fit failed, from the diff on
FitFailureCompletes ==
    (an_pc = "diff" /\ top_terms_file' # GarbledSnapshotFile) =>
        /\ an_pc' = "idle"
        /\ "tfidf_failed" \in DOMAIN report_file'
        /\ top_terms_file'.status = "json"
        /\ top_terms_file'.content.top_tfidf = << >>
        /\ an_summary'.top_tfidf = "n/a"

\* C21 (as claimed): a run whose TF-IDF model cannot be fit does not raise:
\* it goes on with an empty top-term list, ends with the failure reason in
\* the report file and a snapshot with an empty top_tfidf map in the
\* snapshot file, and leaves the rows of the Store as they are.
C21_FitFailureNeverRaises ==
    [][FitFailed =>
          /\ an_in.top = << >>
          /\ an_pc = "load" => an_pc' = "diff"
          /\ FitFailureCompletes
          /\ parquet_file' = parquet_file]_vars

\* the part of C21 that holds: the same, for a run that finds a snapshot
\* file it can decode
C21_DecodablePart ==
    [][FitFailed =>
          /\ an_in.top = << >>
          /\ (an_pc = "load" /\ top_terms_file.status # "undecodable")
                => an_pc' = "diff"
          /\ FitFailureCompletes
          /\ parquet_file' = parquet_file]_vars

\* a run whose fit failed has diffed against a snapshot with top terms
C21_DecodablePartWitness ==
    /\ FitFailed
    /\ NonBaselineRun
    /\ Len(parquet_file.rows) = 3
    /\ top_terms_file.content.top_tfidf = << >>
    /\ report_file["tfidf_failed"] = "After pruning, no terms remain"

\* the notices the adapters of the run return, in the order of ALL_SOURCES
RECURSIVE ReturnedFrom(_)
ReturnedFrom(k) ==
    IF k > Len(ALL_SOURCES) THEN << >>
    ELSE (IF sc_outcome[ALL_SOURCES[k]].raises THEN << >>
          ELSE sc_outcome[ALL_SOURCES[k]].results) \o ReturnedFrom(k + 1)

Returned == ReturnedFrom(1)

\* the scrape loop of the run is over and the run has not ended
PastScrape(p) == pc[p] \in {"load", "loop", "save", "append", "done"}

\* C22: when adapters raise, every adapter of ALL_SOURCES is still called,
\* the batch is what the other adapters returned, the run ends early only
\* when that is nothing, and the Store gains one classified row for each
\* hash of the batch that the loaded seen-set did not hold.
C22_FailingAdapterIsolated ==
    [][\A p \in SeqProcs :
          /\ (pc[p] = "scrape" /\ pc'[p] # "scrape") =>
                /\ sc_invoked = ALL_SOURCES
                /\ sc_failed = {a \in Range(ALL_SOURCES) : sc_outcome[a].raises}
                /\ all_rfps[p] = Returned
                /\ pc'[p] = "idle" <=> Returned = << >>
          /\ PastScrape(p)' => all_rfps'[p] = Returned'
          /\ pc'[p] = "done" =>
                LET newHashes == {rfp_hash(Returned'[k]) : k \in 1..Len(Returned')}
                                    \ DOMAIN seen0'[p]
                    gained == Gained(p)'
                IN /\ IsPrefix(store0'[p].rows, parquet_file'.rows)
                   /\ Hashes(gained) = newHashes
                   /\ Len(gained) = Cardinality(newHashes)
                   /\ \A k \in 1..Len(gained) :
                         gained[k] = StoreRow(FirstWithHash(Returned', gained[k].hash),
                                              gained[k].hash, now'[p])]_vars

\* the first adapter raised, and of the notices the others returned one was
\* rejected as seen and one was stored
C22_Witness ==
    /\ pc[1] = "done"
    /\ sc_outcome[ALL_SOURCES[1]].raises
    /\ sc_failed = {ALL_SOURCES[1]}
    /\ rejected[1] # {}
    /\ Len(Gained(1)) > 0
    /\ Len(all_rfps[1]) = 2

\* C23: a step of the analyzer, of the dashboard generator or of an email
\* digest leaves the Store as it is, and a step of the dashboard generator
\* or of an email digest (a step that is not of the analyzer) leaves the
\* snapshot file and the seen-set file as they are.
C23_ReadersLeaveFilesAlone ==
    [][/\ parquet_file' = parquet_file
       /\ (an_pc' = an_pc /\ an_clock' = an_clock) =>
             /\ top_terms_file' = top_terms_file
             /\ seen_file' = seen_file]_vars

\* the dashboard was generated from a Store of three rows and a snapshot
\* with top terms, a digest was sent, and the files are still there
C23_Witness ==
    /\ Len(parquet_file.rows) = 3
    /\ DOMAIN seen_file # {}
    /\ top_terms_file.status = "json"
    /\ DOMAIN docs # {}
    /\ docs.total_rfps = 3
    /\ Len(docs.top_tfidf) = 3
    /\ \E m \in outbox : m.to = "jdoe@university.edu"
    /\ \E m \in outbox : m.to = "EMAIL_TO"
    /\ NonBaselineRun

\* both runs have reached the end of line 92
BothDone == \A p \in Procs : pc[p] = "done"

\* C24 (as claimed): two runs on the same files behave as if serialized:
\* when both have saved and appended, no hash was accepted by both, every
\* entry either run wrote to the seen-set is in the seen-set file, and every
\* row either run appended is in the Store.
C24_OverlappingRunsSerialized ==
    BothDone =>
        /\ Hashes(new_rfps[1]) \cap Hashes(new_rfps[2]) = {}
        /\ \A p \in Procs : DOMAIN seen[p] \subseteq DOMAIN seen_file
        /\ \A p \in Procs : \A k \in 1..Len(new_rfps[p]) :
              \E j \in 1..Len(parquet_file.rows) :
                  parquet_file.rows[j] = new_rfps[p][k]

\* C25 (as claimed): a stale entry never causes a rejection: a hash a run
\* has rejected because of an entry it loaded from the seen-set file had an
\* entry not older than the TTL when the run read the clock (line 48).
C25_StaleEntryNeverRejects ==
    \A p \in Procs : \A h \in rejected[p] :
        h \in DOMAIN seen0[p] =>
            now[p] - seen0[p][h].first_seen <= SEEN_TTL_DAYS

\* the latest run loaded a previous snapshot at line 411
SnapshotLoaded == an_file0.status = "json"

\* C26 (as claimed): a completed run is reported as the baseline only when
\* it could load no previous snapshot; when it loaded one, even one with an
\* empty top_tfidf map, the new gap terms and the new RAKE phrases against
\* that snapshot are reported.
C26_BaselineOnlyWithoutSnapshot ==
    RunCompleted =>
        IF SnapshotLoaded
        THEN /\ "baseline" \notin DOMAIN an_report
             /\ Reported("new_gaps") = CurrentGaps \ PreviousGaps
             /\ Reported("new_rake") = CurrentRake \ PreviousRake
        ELSE "baseline" \in DOMAIN an_report

\* C27 (as claimed): the string that is hashed separates the triples: two
\* notices of a batch whose (state, id, title) differ have different dedup
\* keys.
C27_KeySeparatesTriples ==
    \A p \in Procs : \A i, j \in 1..Len(all_rfps[p]) :
        Triple(all_rfps[p][i]) # Triple(all_rfps[p][j]) =>
            rfp_hash(all_rfps[p][i]) # rfp_hash(all_rfps[p][j])

\* the tokens extract_key_terms got from record k of the batch
TokensOf(k) == tokenize(KeyTermsText(kt_rfps[k]))

\* a term of two words
IsBigram(term) == Contains(term, " ")

\* C28: the key terms of a record never mix bigrams and unigrams: when two
\* or more tokens survive tokenization the terms are bigrams only (and there
\* is one at least), when exactly one survives the result is that token,
\* and no unigram comes before a bigram.
C28_BigramsOrTheSingleToken ==
    \A k \in 1..Len(kt_out) :
        LET terms == kt_out[k].key_terms
        IN /\ Len(TokensOf(k)) >= 2 =>
                 /\ Len(terms) >= 1
                 /\ \A i \in 1..Len(terms) : IsBigram(terms[i])
           /\ Len(TokensOf(k)) = 1 => terms = << TokensOf(k)[1] >>
           /\ Len(TokensOf(k)) = 0 => terms = << >>
           /\ \A i, j \in 1..Len(terms) :
                 (i < j /\ IsBigram(terms[j])) => IsBigram(terms[i])

\* one record of the batch left a single token, which was returned, and the
\* other left three or more, of which only bigrams were returned
C28_Witness ==
    /\ Len(kt_out) = 2
    /\ Len(TokensOf(1)) = 1
    /\ kt_out[1].key_terms = << "bridge" >>
    /\ Len(TokensOf(2)) >= 3
    /\ Len(kt_out[2].key_terms) >= 2
    /\ \A t \in Range(kt_out[2].key_terms) : IsBigram(t)

\* C29 (as claimed): when a non-baseline run has terms in its top-term set
\* that the previous snapshot did not have, the summary run_analysis returns
\* has "new terms: N", N being the number of those terms.
C29_SummaryCountsNewTerms ==
    (NonBaselineRun /\ Reported("new_terms") # {}) =>
        /\ "new_terms" \in DOMAIN an_summary
        /\ an_summary.new_terms = Cardinality(Reported("new_terms"))

\* the keywords the responses of a history ask to add or to remove
Mentioned(history) ==
    UNION {Range(history[k].added) \cup Range(history[k].removed) :
              k \in 1..Len(history)}

\* the latest response of the history that names the keyword
LastMention(history, kw) ==
    history[CHOOSE k \in 1..Len(history) :
               /\ kw \in Range(history[k].added) \cup Range(history[k].removed)
               /\ \A j \in (k + 1)..Len(history) :
                     kw \notin Range(history[j].added) \cup Range(history[j].removed)]

\* the lists of every member agree with the history of the member
OverlayConsistent(file) ==
    LET members == load_overrides(file).members
    IN \A e \in DOMAIN members :
          LET adds == Range(members[e].additions)
              rems == Range(members[e].removals)
          IN /\ adds \cap rems = {}
             /\ adds \cup rems = Mentioned(members[e].history)
             /\ \A kw \in Mentioned(members[e].history) :
                   IF kw \in Range(LastMention(members[e].history, kw).removed)
                   THEN kw \in rems
                   ELSE kw \in adds

\* patterns is what the file gives for a member, whichever of the union
\* and the difference is taken first
PatternsUnambiguous(patterns, file) ==
    \E k \in 1..Len(TEAM_MEMBERS) :
        LET members == load_overrides(file).members
            e == TEAM_MEMBERS[k].email
            base == Range(TEAM_MEMBERS[k].patterns)
            adds == IF e \in DOMAIN members
                    THEN Range(members[e].additions) ELSE {}
            rems == IF e \in DOMAIN members
                    THEN Range(members[e].removals) ELSE {}
        IN /\ Range(patterns) = (base \cup adds) \ rems
           /\ Range(patterns) = (base \ rems) \cup adds
           /\ Len(patterns) = Cardinality(Range(patterns))

C9_NoReacceptanceInRun ==
    [][\A p \in Procs :
          /\ (pc[p] = "loop" /\ Len(new_rfps'[p]) = Len(new_rfps[p]) + 1) =>
                LET h == new_rfps'[p][Len(new_rfps'[p])].hash
                IN /\ h \notin rejected[p]
                   /\ h \notin Hashes(new_rfps[p])
          /\ (pc'[p] # "idle" /\ ~(DOMAIN seen[p] \subseteq DOMAIN seen'[p])) =>
                /\ idx[p] > Len(all_rfps[p])
                /\ idx[p] = idx'[p]]_vars

C9_Witness ==
    /\ pc[1] = "save"
    /\ Len(new_rfps[1]) > 0
    /\ \E h \in rejected[1] : h \in DOMAIN seen0[1] /\ h \notin DOMAIN seen[1]

\* the entry e is older than the TTL
Stale(e) == clock - e.first_seen > 90

\* C10: an entry never changes, in the dict of a run or in the file; it
\* leaves them only by pruning, and only when it is older than the TTL.
C10_EntriesImmutable ==
    [][/\ \A h \in DOMAIN seen_file :
             IF h \in DOMAIN seen_file'
             THEN seen_file'[h] = seen_file[h]
             ELSE Stale(seen_file[h])
       /\ \A p \in Procs :
             pc'[p] # "idle" =>
                \A h \in DOMAIN seen[p] :
                    IF h \in DOMAIN seen'[p]
                    THEN seen'[p][h] = seen[p][h]
                    ELSE /\ pc[p] = "loop" /\ pc'[p] = "save"
                         /\ Stale(seen[p][h])]_vars

C10_Witness ==
    /\ pc[1] = "save"
    /\ rejected[1] # {}
    /\ \E h \in DOMAIN seen0[1] : h \notin DOMAIN seen[1]
    /\ \E h \in DOMAIN seen0[1] :
          /\ h \in DOMAIN seen[1]
          /\ seen[1][h] = seen0[1][h]
          /\ clock - seen[1][h].first_seen = 90

====
